---- MODULE Spec2Model ----
(***************************************************************************)
(* Learning-curve projection, LCOH aggregation and inversion engine of the *)
(* electrolytic-hydrogen dashboard (regional_utils.py, lcoh_utils.py,      *)
(* target_cost_utils.py).                                                  *)
(*                                                                         *)
(* Numbers.  The Python code computes on floats.  The model computes on    *)
(* exact rationals: a number is a record [sg, n, d] with sign sg, and      *)
(* numerator n and denominator d held as arbitrary-size naturals (digit    *)
(* sequences, least significant digit first), so that no product is cut    *)
(* to a machine width.  A power with a fractional exponent is taken only   *)
(* where its root is rational; floating-point rounding is not modelled.    *)
(* A Python exception (ZeroDivisionError) is the value Err, which every    *)
(* operation propagates; a call that raises returns no table.              *)
(***************************************************************************)
EXTENDS Integers, Sequences, FiniteSets, TLC

(***************************************************************************)
(* Arbitrary-size naturals                                                 *)
(***************************************************************************)
\* Radix of the digit sequences (a digit product plus carry stays a machine integer).
Radix == 10000

RECURSIVE BNat(_)
\* The digit sequence of a machine natural k.
BNat(k) == IF k = 0 THEN <<>> ELSE <<k % Radix>> \o BNat(k \div Radix)

\* Drop most-significant zero digits.
BStrip(a) ==
    LET nz == {i \in 1..Len(a) : a[i] # 0}
    IN  IF nz = {} THEN <<>>
        ELSE SubSeq(a, 1, CHOOSE i \in nz : \A j \in nz : j <= i)

\* Digit i of a, zero beyond its length.
BDigit(a, i) == IF i <= Len(a) THEN a[i] ELSE 0

RECURSIVE BAddRange(_, _, _, _, _)
\* Digits lo..hi of a + b with carry c in, and the carry out; the range is halved
\* so that the depth of the evaluation stays logarithmic in the length.
BAddRange(a, b, lo, hi, c) ==
    IF lo = hi
    THEN LET x == BDigit(a, lo) + BDigit(b, lo) + c
         IN  [s |-> <<x % Radix>>, c |-> x \div Radix]
    ELSE LET mid == (lo + hi) \div 2
             L == BAddRange(a, b, lo, mid, c)
             H == BAddRange(a, b, mid + 1, hi, L.c)
         IN  [s |-> L.s \o H.s, c |-> H.c]

BAdd(a, b) ==
    IF a = <<>> THEN b
    ELSE IF b = <<>> THEN a
    ELSE LET r == BAddRange(a, b, 1, IF Len(a) < Len(b) THEN Len(b) ELSE Len(a), 0)
         IN  IF r.c = 0 THEN r.s ELSE Append(r.s, r.c)

RECURSIVE BSubRange(_, _, _, _, _)
\* Digits lo..hi of a - b with borrow c in, and the borrow out.
BSubRange(a, b, lo, hi, c) ==
    IF lo = hi
    THEN LET x == BDigit(a, lo) - BDigit(b, lo) - c
         IN  IF x < 0 THEN [s |-> <<x + Radix>>, c |-> 1] ELSE [s |-> <<x>>, c |-> 0]
    ELSE LET mid == (lo + hi) \div 2
             L == BSubRange(a, b, lo, mid, c)
             H == BSubRange(a, b, mid + 1, hi, L.c)
         IN  [s |-> L.s \o H.s, c |-> H.c]

\* a - b for a >= b.
BSub(a, b) == IF a = <<>> THEN <<>> ELSE BStrip(BSubRange(a, b, 1, Len(a), 0).s)

RECURSIVE BConv(_, _, _, _, _)
\* The part of digit k of a * b that the digits lo..hi of b give, before carries:
\* the low halves of the digit products of column k and the high halves of those
\* of column k - 1.
BConv(a, b, k, lo, hi) ==
    IF lo > hi THEN 0
    ELSE IF lo = hi
    THEN (IF k - lo + 1 \in 1..Len(a) THEN (a[k - lo + 1] * b[lo]) % Radix ELSE 0)
         + (IF k - lo \in 1..Len(a) THEN (a[k - lo] * b[lo]) \div Radix ELSE 0)
    ELSE BConv(a, b, k, lo, (lo + hi) \div 2) + BConv(a, b, k, (lo + hi) \div 2 + 1, hi)

RECURSIVE BCarryRange(_, _, _, _)
\* Digits lo..hi of the number with the column sums col, with carry c in, and the
\* carry out.
BCarryRange(col, lo, hi, c) ==
    IF lo = hi
    THEN LET x == col[lo] + c
         IN  [s |-> <<x % Radix>>, c |-> x \div Radix]
    ELSE LET mid == (lo + hi) \div 2
             L == BCarryRange(col, lo, mid, c)
             H == BCarryRange(col, mid + 1, hi, L.c)
         IN  [s |-> L.s \o H.s, c |-> H.c]

\* a * b
BMul(a, b) ==
    IF a = <<>> \/ b = <<>> THEN <<>>
    ELSE IF b = <<1>> THEN a
    ELSE IF a = <<1>> THEN b
    ELSE BStrip(BCarryRange([k \in 1..(Len(a) + Len(b)) |-> BConv(a, b, k, 1, Len(b))],
                            1, Len(a) + Len(b), 0).s)

\* a < b
BLess(a, b) ==
    IF Len(a) # Len(b) THEN Len(a) < Len(b)
    ELSE LET diff == {i \in 1..Len(a) : a[i] # b[i]}
         IN  IF diff = {} THEN FALSE
             ELSE LET top == CHOOSE i \in diff : \A j \in diff : j <= i
                  IN  a[top] < b[top]

BLeq(a, b) == a = b \/ BLess(a, b)

(***************************************************************************)
(* Exact rationals, with Err for a raised ZeroDivisionError                *)
(***************************************************************************)
Err == [sg |-> 2, n |-> <<>>, d |-> <<>>]

\* A float with no rational value in the model (an irrational root).
Irr == [sg |-> 3, n |-> <<>>, d |-> <<>>]

\* A float beyond the range of doubles: the `**` of Python floats raises
\* OverflowError, that of numpy floats yields inf.
Ovf == [sg |-> 4, n |-> <<>>, d |-> <<>>]

IsErr(a) == a.sg = 2

IsOvf(a) == a.sg = 4

IsIrr(a) == a.sg = 3

\* a is no number: a raised error or a value outside the rationals.
Bad(a) == a.sg > 1

\* The rational p / q of machine integers, q > 0.
RFrac(p, q) ==
    IF p = 0 THEN [sg |-> 0, n |-> <<>>, d |-> BNat(1)]
    ELSE IF p < 0 THEN [sg |-> -1, n |-> BNat(-p), d |-> BNat(q)]
    ELSE [sg |-> 1, n |-> BNat(p), d |-> BNat(q)]

RInt(k) == RFrac(k, 1)

RZero == RInt(0)
ROne == RInt(1)

\* The machine natural of a digit sequence of at most two digits.
BVal(a) == IF a = <<>> THEN 0 ELSE IF Len(a) = 1 THEN a[1] ELSE a[1] + Radix * a[2]

RECURSIVE Gcd(_, _)
Gcd(x, y) == IF y = 0 THEN x ELSE Gcd(y, x % y)

\* a in lowest terms, where its numerator and denominator are machine naturals.
RNorm(a) ==
    IF a.sg \notin {-1, 1} \/ Len(a.n) > 2 \/ Len(a.d) > 2 THEN a
    ELSE LET g == Gcd(BVal(a.n), BVal(a.d))
         IN  IF g = 1 THEN a
             ELSE [sg |-> a.sg, n |-> BNat(BVal(a.n) \div g), d |-> BNat(BVal(a.d) \div g)]

RNeg(a) == IF Bad(a) THEN a ELSE [a EXCEPT !.sg = -a.sg]

\* sa * x / den + sb * y / den for signs sa, sb and naturals x, y, den.
RAddOver(sa, sb, x, y, den) ==
    IF sa # sb /\ x = y THEN RZero
    ELSE RNorm(IF sa = sb THEN [sg |-> sa, n |-> BAdd(x, y), d |-> den]
               ELSE IF BLess(y, x) THEN [sg |-> sa, n |-> BSub(x, y), d |-> den]
               ELSE [sg |-> sb, n |-> BSub(y, x), d |-> den])

\* a + b
RAdd(a, b) ==
    IF Bad(a) THEN a
    ELSE IF Bad(b) THEN b
    ELSE IF a.sg = 0 THEN b
    ELSE IF b.sg = 0 THEN a
    ELSE RAddOver(a.sg, b.sg,
                  IF a.d = b.d THEN a.n ELSE BMul(a.n, b.d),
                  IF a.d = b.d THEN b.n ELSE BMul(b.n, a.d),
                  IF a.d = b.d THEN a.d ELSE BMul(a.d, b.d))

RSub(a, b) == RAdd(a, RNeg(b))

\* a * b
RMul(a, b) ==
    IF Bad(a) THEN a
    ELSE IF Bad(b) THEN b
    ELSE IF a.sg = 0 \/ b.sg = 0 THEN RZero
    ELSE RNorm([sg |-> a.sg * b.sg, n |-> BMul(a.n, b.n), d |-> BMul(a.d, b.d)])

\* a / b; Python raises ZeroDivisionError for b = 0.
RDiv(a, b) ==
    IF Bad(a) THEN a
    ELSE IF Bad(b) THEN b
    ELSE IF b.sg = 0 THEN Err
    ELSE IF a.sg = 0 THEN RZero
    ELSE RNorm([sg |-> a.sg * b.sg, n |-> BMul(a.n, b.d), d |-> BMul(a.d, b.n)])

\* a = b as numbers (no number equals Err or Irr).
REq(a, b) ==
    /\ ~Bad(a)
    /\ ~Bad(b)
    /\ a.sg = b.sg
    /\ BMul(a.n, b.d) = BMul(b.n, a.d)

\* sg * x < sg * y for a sign sg and naturals x, y.
BLessSigned(sg, x, y) == IF sg = 1 THEN BLess(x, y) ELSE BLess(y, x)

\* a < b as numbers.
RLess(a, b) ==
    /\ ~Bad(a)
    /\ ~Bad(b)
    /\ IF a.sg # b.sg THEN a.sg < b.sg
       ELSE IF a.sg = 0 THEN FALSE
       ELSE BLessSigned(a.sg, BMul(a.n, b.d), BMul(b.n, a.d))

RLeq(a, b) == REq(a, b) \/ RLess(a, b)

\* max(a, b) of Python: the first argument unless the second is greater.
RMax(a, b) == IF Bad(a) THEN a ELSE IF Bad(b) THEN b ELSE IF RLess(a, b) THEN b ELSE a

\* a * a
RSquare(a) == RMul(a, a)

RECURSIVE RPowNat(_, _)
\* a ** k for a natural k, by repeated squaring.
RPowNat(a, k) ==
    IF k = 0 THEN ROne
    ELSE RMul(IF k % 2 = 0 THEN ROne ELSE a, RSquare(RPowNat(a, k \div 2)))

BSquare(a) == BMul(a, a)

RECURSIVE BPowNat(_, _)
BPowNat(a, k) ==
    IF k = 0 THEN BNat(1)
    ELSE BMul(IF k % 2 = 0 THEN BNat(1) ELSE a, BSquare(BPowNat(a, k \div 2)))

\* Largest numerator and denominator tried for a rational root.
RootMax == 9

\* The pairs <<p, q>> with a = p ^ m / q ^ m, given the table pw of the m-th powers
\* (a product has the length of its factors together, or one digit less).
RootsAmong(a, pw) ==
    {pq \in (1..RootMax) \X (1..RootMax) :
        /\ (Len(pw[pq[1]]) + Len(a.d)) - (Len(pw[pq[2]]) + Len(a.n)) \in {-1, 0, 1}
        /\ BMul(pw[pq[1]], a.d) = BMul(pw[pq[2]], a.n)}

\* The root in lowest terms among the pairs roots, Irr where there is none.
LeastRoot(roots) ==
    IF roots = {} THEN Irr
    ELSE LET pq == CHOOSE r \in roots : \A o \in roots : r[2] <= o[2]
         IN  RFrac(pq[1], pq[2])

\* The m-th root of a >= 0 where it is a rational p / q with p, q <= RootMax.
RRoot(a, m) ==
    IF Bad(a) THEN a
    ELSE IF m = 1 \/ a.sg = 0 THEN a
    ELSE IF a.sg < 0 THEN Irr
    ELSE LeastRoot(RootsAmong(a, [p \in 1..RootMax |-> BPowNat(BNat(p), m)]))

\* The binary exponent of the least power of two beyond the largest double.
float_max_exp == 1024

\* |a| is beyond the largest double.
Overflows(a) ==
    /\ ~Bad(a)
    /\ a.sg # 0
    /\ Len(a.n) >= Len(a.d) + 77
    /\ BLeq(BMul(a.d, BPowNat(BNat(2), float_max_exp)), a.n)

RECURSIVE Log2Floor(_)
\* The greatest e with 2 ^ e <= x, for a machine natural x >= 1.
Log2Floor(x) == IF x < 2 THEN 0 ELSE 1 + Log2Floor(x \div 2)

\* The least e with x <= 2 ^ e.
Log2Ceil(x) == IF x = 1 THEN 0 ELSE 1 + Log2Floor(x - 1)

\* a has machine naturals as numerator and denominator.
RSmall(a) == a.sg \in {-1, 1} /\ Len(a.n) <= 2 /\ Len(a.d) <= 2

\* |a| ^ k is beyond the largest double, by the powers of two below a.n and above
\* a.d.
PowSurelyOverflows(a, k) ==
    RSmall(a) /\ k * (Log2Floor(BVal(a.n)) - Log2Ceil(BVal(a.d))) >= float_max_exp

\* a, or the overflow where a is beyond the doubles.
RangeChecked(a) == IF Overflows(a) THEN Ovf ELSE a

\* base ** k for a natural k >= 1.
RPowOfBase(base, k) ==
    IF Bad(base) \/ base.sg = 0 THEN base
    ELSE IF PowSurelyOverflows(base, k) THEN Ovf
    ELSE RangeChecked(RPowNat(base, k))

\* a ** sg for a sign sg: a, or 1 / a.
RRecipIf(sg, a) == IF sg > 0 THEN a ELSE RDiv(ROne, a)

\* a ** e of Python floats, for an exponent e = +-k / m with small k and m:
\* x ** 0 is 1, 0 ** e raises ZeroDivisionError for e < 0, and a result beyond
\* the doubles overflows.
RPow(a, e) ==
    IF Bad(a) THEN a
    ELSE IF Bad(e) THEN e
    ELSE IF e.sg = 0 THEN ROne
    ELSE RPowOfBase(RRecipIf(e.sg, RRoot(a, e.d[1])), e.n[1])

RECURSIVE RSum(_)
\* sum([...]) of Python: a left fold from 0.
RSum(s) == IF s = <<>> THEN RZero ELSE RAdd(RSum(SubSeq(s, 1, Len(s) - 1)), s[Len(s)])

(***************************************************************************)
(* regional_utils.py: capacity growth and the learning-curve projections   *)
(***************************************************************************)
\* TECHNOLOGIES of the dashboard, the technology list every engine call is given.
TECHNOLOGIES == <<"western_pem", "chinese_pem", "western_alk", "chinese_alk">>

TechSet == {TECHNOLOGIES[i] : i \in 1..Len(TECHNOLOGIES)}

\* tech in ['western_pem', 'chinese_pem']
IsPem(tech) == tech \in {"western_pem", "chinese_pem"}

\* The fixed baseline capacities of generate_regional_stack_data, in MW.
additional_pem_capacity == 1100
additional_alk_capacity == 22580

\* The sequence of f[x] for x along the list s.
MapSeq(s, f) == [i \in 1..Len(s) |-> f[s[i]]]

RECURSIVE GrowthSeriesShrinking(_, _, _)
\* Mutant of GrowthSeries: the rate is subtracted, `*= (1 - growth_rate)`.
GrowthSeriesShrinking(x0, g, t) ==
    IF t = 0 THEN x0 ELSE RMul(GrowthSeriesShrinking(x0, g, t - 1), RSub(ROne, g))

RECURSIVE GrowthSeries(_, _, _)
\* current_capacities[region] after t passes of `*= (1 + growth_rate)`.
GrowthSeries(x0, g, t) ==
    IF t = 0 THEN x0 ELSE RMul(GrowthSeries(x0, g, t - 1), RAdd(ROne, g))

\* Mutant of calculate_regional_capacity_growth: every region compounds with the
\* growth rate of the first region of the list.
calculate_regional_capacity_growth_one_rate(technology, regions, region_tech_growth_rates, base_capacities, years, base_year) ==
    LET by_region == [r \in {regions[i] : i \in 1..Len(regions)} |->
                        [t \in 1..(years + 1) |->
                            GrowthSeries(RInt(base_capacities[r][technology]),
                                         region_tech_growth_rates[regions[1]][technology], t - 1)]]
    IN  [year |-> [t \in 1..(years + 1) |-> base_year + t - 1],
         capacity |-> [t \in 1..(years + 1) |->
                          RSum([i \in 1..Len(regions) |-> by_region[regions[i]][t]])],
         capacity_by_region |-> by_region]

\* calculate_regional_capacity_growth: year list, total and per-region capacity of
\* one technology; entry t + 1 of a list is the value of year index t.
calculate_regional_capacity_growth(technology, regions, region_tech_growth_rates, base_capacities, years, base_year) ==
    LET by_region == [r \in {regions[i] : i \in 1..Len(regions)} |->
                        [t \in 1..(years + 1) |->
                            GrowthSeries(RInt(base_capacities[r][technology]),
                                         region_tech_growth_rates[r][technology], t - 1)]]
    IN  [year |-> [t \in 1..(years + 1) |-> base_year + t - 1],
         capacity |-> [t \in 1..(years + 1) |->
                          RSum([i \in 1..Len(regions) |-> by_region[regions[i]][t]])],
         capacity_by_region |-> by_region]

\* base_x_0_pem: the user's PEM base capacity, all regions.
base_x_0_pem(regions, base_capacities) ==
    RSum(<<RSum([i \in 1..Len(regions) |-> RInt(base_capacities[regions[i]]["western_pem"])]),
           RSum([i \in 1..Len(regions) |-> RInt(base_capacities[regions[i]]["chinese_pem"])])>>)

\* base_x_0_alk: the user's ALK base capacity, all regions.
base_x_0_alk(regions, base_capacities) ==
    RSum(<<RSum([i \in 1..Len(regions) |-> RInt(base_capacities[regions[i]]["western_alk"])]),
           RSum([i \in 1..Len(regions) |-> RInt(base_capacities[regions[i]]["chinese_alk"])])>>)

\* base_x_0_total: the user's base capacity, all technologies.
base_x_0_total(regions, base_capacities) ==
    RAdd(base_x_0_pem(regions, base_capacities), base_x_0_alk(regions, base_capacities))

\* base_tech_capacities[tech]
base_tech_capacities(tech, regions, base_capacities) ==
    RSum([i \in 1..Len(regions) |-> RInt(base_capacities[regions[i]][tech])])

\* x_0_pem, x_0_alk, x_0_total: the pool denominators of first_layer and shared.
x_0_pem(regions, base_capacities) ==
    RAdd(base_x_0_pem(regions, base_capacities), RInt(additional_pem_capacity))

x_0_alk(regions, base_capacities) ==
    RAdd(base_x_0_alk(regions, base_capacities), RInt(additional_alk_capacity))

x_0_total(regions, base_capacities) ==
    RAdd(x_0_pem(regions, base_capacities), x_0_alk(regions, base_capacities))

\* x_0_tech[tech]: the pool denominator of second_layer.
x_0_tech(tech, regions, base_capacities) ==
    IF IsPem(tech)
    THEN RAdd(base_tech_capacities(tech, regions, base_capacities), RInt(additional_pem_capacity))
    ELSE RAdd(base_tech_capacities(tech, regions, base_capacities), RInt(additional_alk_capacity))

\* capacity_data_base[tech]
capacity_data_base(tech, regions, base_capacities, region_tech_growth_rates, years, base_year) ==
    calculate_regional_capacity_growth(tech, regions, region_tech_growth_rates,
                                       base_capacities, years, base_year)

\* capacity_data[tech]['capacity'][year_idx]: the 'capacity' column, where the
\* baseline is added to the contribution of region 'usa' only.
capacity_column(tech, regions, base_capacities, region_tech_growth_rates, years, base_year, year_idx) ==
    LET base == capacity_data_base(tech, regions, base_capacities,
                                   region_tech_growth_rates, years, base_year)
        extra == IF IsPem(tech) THEN additional_pem_capacity ELSE additional_alk_capacity
    IN  RSum([i \in 1..Len(regions) |->
                RAdd(base.capacity_by_region[regions[i]][year_idx + 1],
                     RInt(IF regions[i] = "usa" THEN extra ELSE 0))])

\* raw_x_total: all technologies' raw capacity of the year.
raw_x_total(regions, base_capacities, region_tech_growth_rates, years, base_year, year_idx) ==
    RSum([i \in 1..Len(TECHNOLOGIES) |->
            capacity_data_base(TECHNOLOGIES[i], regions, base_capacities,
                               region_tech_growth_rates, years, base_year).capacity[year_idx + 1]])

\* Mutant of x_total: the ALK baseline is left out of the numerator.
x_total_without_alk_baseline(regions, base_capacities, region_tech_growth_rates, years, base_year, year_idx) ==
    RAdd(raw_x_total(regions, base_capacities, region_tech_growth_rates,
                     years, base_year, year_idx),
         RInt(additional_pem_capacity))

\* x_total: the pool numerator of shared.
x_total(regions, base_capacities, region_tech_growth_rates, years, base_year, year_idx) ==
    RAdd(RAdd(raw_x_total(regions, base_capacities, region_tech_growth_rates,
                          years, base_year, year_idx),
              RInt(additional_pem_capacity)),
         RInt(additional_alk_capacity))

\* raw_x_pem / raw_x_alk: the raw capacity of the family of tech at year_idx.
raw_x_family(tech, regions, base_capacities, region_tech_growth_rates, years, base_year, year_idx) ==
    LET cap(t) == capacity_data_base(t, regions, base_capacities,
                                     region_tech_growth_rates, years, base_year).capacity[year_idx + 1]
    IN  IF IsPem(tech) THEN RAdd(cap("western_pem"), cap("chinese_pem"))
        ELSE RAdd(cap("western_alk"), cap("chinese_alk"))

\* x_pem / x_alk: the pool numerator of first_layer, by the family of tech.
x_family(tech, regions, base_capacities, region_tech_growth_rates, years, base_year, year_idx) ==
    RAdd(raw_x_family(tech, regions, base_capacities, region_tech_growth_rates,
                      years, base_year, year_idx),
         RInt(IF IsPem(tech) THEN additional_pem_capacity ELSE additional_alk_capacity))

\* base_x_0_pem / base_x_0_alk by the family of tech.
base_x_0_family(tech, regions, base_capacities) ==
    IF IsPem(tech) THEN base_x_0_pem(regions, base_capacities)
    ELSE base_x_0_alk(regions, base_capacities)

\* raw_tech_capacity: the raw capacity of tech at year_idx.
raw_tech_capacity(tech, regions, base_capacities, region_tech_growth_rates, years, base_year, year_idx) ==
    capacity_data_base(tech, regions, base_capacities,
                       region_tech_growth_rates, years, base_year).capacity[year_idx + 1]

\* x_0_pem / x_0_alk by the family of tech.
x_0_family(tech, regions, base_capacities) ==
    IF IsPem(tech) THEN x_0_pem(regions, base_capacities) ELSE x_0_alk(regions, base_capacities)

\* tech_capacity: the pool numerator of second_layer.
tech_capacity(tech, regions, base_capacities, region_tech_growth_rates, years, base_year, year_idx) ==
    IF IsPem(tech)
    THEN RAdd(raw_tech_capacity(tech, regions, base_capacities, region_tech_growth_rates,
                                years, base_year, year_idx),
              RInt(additional_pem_capacity))
    ELSE RAdd(raw_tech_capacity(tech, regions, base_capacities, region_tech_growth_rates,
                                years, base_year, year_idx),
              RInt(additional_alk_capacity))

\* Mutant of learning_cost: the ratio is inverted, (x_0 / x) ** alpha.
learning_cost_inverted_ratio(c_0, x, x_0, alpha) == RMul(c_0, RPow(RDiv(x_0, x), alpha))

\* The power law C_0 * (x / x_0) ** alpha.
learning_cost(c_0, x, x_0, alpha) == RMul(c_0, RPow(RDiv(x, x_0), alpha))

\* The cost of tech at year_idx under one stack topology (the loop body of
\* generate_regional_stack_data): year 0 is set to costs_0[tech].
stack_cost_of_year(model, tech, regions, costs_0, base_capacities, region_tech_growth_rates, alphas, years, base_year, year_idx) ==
    IF year_idx = 0 THEN costs_0[tech]
    ELSE IF model = "shared"
    THEN learning_cost(costs_0[tech],
                       x_total(regions, base_capacities, region_tech_growth_rates,
                               years, base_year, year_idx),
                       x_0_total(regions, base_capacities), alphas[tech])
    ELSE IF model = "first_layer"
    THEN learning_cost(costs_0[tech],
                       x_family(tech, regions, base_capacities, region_tech_growth_rates,
                                years, base_year, year_idx),
                       x_0_family(tech, regions, base_capacities), alphas[tech])
    ELSE learning_cost(costs_0[tech],
                       tech_capacity(tech, regions, base_capacities, region_tech_growth_rates,
                                     years, base_year, year_idx),
                       x_0_tech(tech, regions, base_capacities), alphas[tech])

StackModels == {"shared", "first_layer", "second_layer"}

\* A table has a raised error in some cell.
Raises(tables) ==
    \E m \in DOMAIN tables : \E k \in DOMAIN tables[m] :
        \E t \in DOMAIN tables[m][k].cost : IsErr(tables[m][k].cost[t])

\* A table has a cell outside the rationals.
Inexact(tables) ==
    \E m \in DOMAIN tables : \E k \in DOMAIN tables[m] :
        \E t \in DOMAIN tables[m][k].cost : IsIrr(tables[m][k].cost[t])

\* A table has a cell beyond the range of doubles.
Overflown(tables) ==
    \E m \in DOMAIN tables : \E k \in DOMAIN tables[m] :
        \E t \in DOMAIN tables[m][k].cost : IsOvf(tables[m][k].cost[t])

\* What a generator call yields: its tables, or the exception it raised.
Outcome(tables) ==
    IF Raises(tables) THEN [status |-> "ZeroDivisionError", data |-> <<>>]
    ELSE IF Overflown(tables) THEN [status |-> "OverflowError", data |-> <<>>]
    ELSE [status |-> "ok", data |-> tables]

\* generate_regional_stack_data: per topology and technology the table
\* {year, capacity, cost}.
stack_tables(regions, costs_0, base_capacities, region_tech_growth_rates, alphas, years, base_year) ==
    [m \in StackModels |-> [tech \in TechSet |->
        [year |-> [t \in 1..(years + 1) |-> base_year + t - 1],
         capacity |-> [t \in 1..(years + 1) |->
                          capacity_column(tech, regions, base_capacities,
                                          region_tech_growth_rates, years, base_year, t - 1)],
         cost |-> [t \in 1..(years + 1) |->
                      stack_cost_of_year(m, tech, regions, costs_0, base_capacities,
                                 region_tech_growth_rates, alphas, years, base_year, t - 1)]]]]

generate_regional_stack_data(regions, costs_0, base_capacities, region_tech_growth_rates, alphas, years, base_year) ==
    Outcome(stack_tables(regions, costs_0, base_capacities, region_tech_growth_rates,
                         alphas, years, base_year))

\* The floor `max(100, ...)` put under a BoP/EPC pool's initial capacity, in MW.
min_initial_capacity == 100

BopModels == {"local", "global"}

BopCategories == {"pem", "alk"}

\* regional_capacities[region]['capacity_by_tech'][tech][year_idx]
capacity_by_tech(region, tech, base_capacities, region_tech_growth_rates, year_idx) ==
    GrowthSeries(RInt(base_capacities[region][tech]),
                 region_tech_growth_rates[region][tech], year_idx)

\* regional_capacities[region]['capacity'][year_idx]: all technologies of the region.
regional_capacity(region, base_capacities, region_tech_growth_rates, year_idx) ==
    RSum([i \in 1..Len(TECHNOLOGIES) |->
            capacity_by_tech(region, TECHNOLOGIES[i], base_capacities,
                             region_tech_growth_rates, year_idx)])

\* x_0_total of generate_regional_bop_epc_data: the user's base capacity, all regions.
bop_x_0_total(regions, base_capacities, region_tech_growth_rates) ==
    RSum([i \in 1..Len(regions) |->
            regional_capacity(regions[i], base_capacities, region_tech_growth_rates, 0)])

\* region_capacity_pem / region_capacity_alk (pem_cap / alk_cap of the 'capacity' column).
region_capacity(region, category, base_capacities, region_tech_growth_rates, year_idx) ==
    IF category = "pem"
    THEN RAdd(capacity_by_tech(region, "western_pem", base_capacities,
                               region_tech_growth_rates, year_idx),
              capacity_by_tech(region, "chinese_pem", base_capacities,
                               region_tech_growth_rates, year_idx))
    ELSE RAdd(capacity_by_tech(region, "western_alk", base_capacities,
                               region_tech_growth_rates, year_idx),
              capacity_by_tech(region, "chinese_alk", base_capacities,
                               region_tech_growth_rates, year_idx))

\* region_total_capacity: PEM + ALK of the region at year_idx.
region_total_capacity(region, base_capacities, region_tech_growth_rates, year_idx) ==
    RAdd(region_capacity(region, "pem", base_capacities, region_tech_growth_rates, year_idx),
         region_capacity(region, "alk", base_capacities, region_tech_growth_rates, year_idx))

\* region_total_initial_capacity after `max(100, ...)`.
region_total_initial_capacity(region, base_capacities, region_tech_growth_rates) ==
    RMax(RInt(min_initial_capacity),
         region_total_capacity(region, base_capacities, region_tech_growth_rates, 0))

\* total_global_capacity: PEM + ALK of every region at year_idx.
total_global_capacity(regions, base_capacities, region_tech_growth_rates, year_idx) ==
    RSum([i \in 1..Len(regions) |->
            region_total_capacity(regions[i], base_capacities, region_tech_growth_rates, year_idx)])

\* x_0_total_adjusted = max(100, x_0_total)
x_0_total_adjusted(regions, base_capacities, region_tech_growth_rates) ==
    RMax(RInt(min_initial_capacity),
         bop_x_0_total(regions, base_capacities, region_tech_growth_rates))

\* learning_factor / global_learning_factor: both categories of a region use
\* alphas_pem[region].
learning_factor(model, region, regions, base_capacities, region_tech_growth_rates, alphas_pem, year_idx) ==
    IF model = "local"
    THEN RPow(RDiv(region_total_capacity(region, base_capacities,
                                         region_tech_growth_rates, year_idx),
                   region_total_initial_capacity(region, base_capacities,
                                                 region_tech_growth_rates)),
              alphas_pem[region])
    ELSE RPow(RDiv(total_global_capacity(regions, base_capacities,
                                         region_tech_growth_rates, year_idx),
                   x_0_total_adjusted(regions, base_capacities, region_tech_growth_rates)),
              alphas_pem[region])

\* Mutant of bop_cost: year 0 is computed by the formula like every other year.
bop_cost_of_year_without_base_year(model, region, category, regions, costs_0_pem, costs_0_alk, base_capacities, region_tech_growth_rates, alphas_pem, alphas_alk, year_idx) ==
    RMul(IF category = "pem" THEN costs_0_pem[region] ELSE costs_0_alk[region],
         learning_factor(model, region, regions, base_capacities,
                         region_tech_growth_rates, alphas_pem, year_idx))

\* Variant of bop_cost_of_year: the ALK category learns with alphas_alk[region].
bop_cost_of_year_by_category_alpha(model, region, category, regions, costs_0_pem, costs_0_alk, base_capacities, region_tech_growth_rates, alphas_pem, alphas_alk, year_idx) ==
    LET c_0 == IF category = "pem" THEN costs_0_pem[region] ELSE costs_0_alk[region]
    IN  IF year_idx = 0 THEN c_0
        ELSE RMul(c_0, learning_factor(model, region, regions, base_capacities,
                                       region_tech_growth_rates,
                                       IF category = "pem" THEN alphas_pem ELSE alphas_alk,
                                       year_idx))

\* The cost of a region's category at year_idx under one BoP/EPC topology (the loop
\* body of generate_regional_bop_epc_data): year 0 is set to the base cost.
bop_cost_of_year(model, region, category, regions, costs_0_pem, costs_0_alk, base_capacities, region_tech_growth_rates, alphas_pem, alphas_alk, year_idx) ==
    LET c_0 == IF category = "pem" THEN costs_0_pem[region] ELSE costs_0_alk[region]
    IN  IF year_idx = 0 THEN c_0
        ELSE RMul(c_0, learning_factor(model, region, regions, base_capacities,
                                       region_tech_growth_rates, alphas_pem, year_idx))

\* The key f"{region}_{category}" of a BoP/EPC table, as a pair.
BopKeys(regions) == {regions[i] : i \in 1..Len(regions)} \X BopCategories

\* generate_regional_bop_epc_data: per topology and region x category the table
\* {year, capacity, cost}.
bop_tables(regions, costs_0_pem, costs_0_alk, base_capacities, region_tech_growth_rates, alphas_pem, alphas_alk, years, base_year) ==
    [m \in BopModels |-> [k \in BopKeys(regions) |->
        [year |-> [t \in 1..(years + 1) |-> base_year + t - 1],
         capacity |-> [t \in 1..(years + 1) |->
                          region_capacity(k[1], k[2], base_capacities,
                                          region_tech_growth_rates, t - 1)],
         cost |-> [t \in 1..(years + 1) |->
                      bop_cost_of_year(m, k[1], k[2], regions, costs_0_pem, costs_0_alk,
                               base_capacities, region_tech_growth_rates,
                               alphas_pem, alphas_alk, t - 1)]]]]

generate_regional_bop_epc_data(regions, costs_0_pem, costs_0_alk, base_capacities, region_tech_growth_rates, alphas_pem, alphas_alk, years, base_year) ==
    Outcome(bop_tables(regions, costs_0_pem, costs_0_alk, base_capacities,
                       region_tech_growth_rates, alphas_pem, alphas_alk, years, base_year))

(***************************************************************************)
(* lcoh_utils.py: capital recovery factor and the levelized cost           *)
(***************************************************************************)
\* Python's None, and a value that is not None.
None == <<>>

Some(v) == <<v>>

\* The default `lifetime=20` of calculate_crf, in years.
lifetime_default == 20

\* Hours of a year, the 8760 of calculate_lcoh.
hours_per_year == 8760

\* The floor 0.00001 of safe_utilization_rate.
min_utilization_rate == RFrac(1, 100000)

\* Mutant of calculate_crf: the denominator is (1 + wacc) ** lifetime, without
\* the - 1.
calculate_crf_discounting_only(wacc, lifetime) ==
    RDiv(RMul(wacc, RPowNat(RAdd(ROne, wacc), lifetime)),
         RPowNat(RAdd(ROne, wacc), lifetime))

\* calculate_crf(wacc, lifetime)
calculate_crf(wacc, lifetime) ==
    RDiv(RMul(wacc, RPowNat(RAdd(ROne, wacc), lifetime)),
         RSub(RPowNat(RAdd(ROne, wacc), lifetime), ROne))

\* Mutant of iloc: a negative index counts from the front.
iloc_negative_from_front(series, i) == IF i >= 0 THEN series[i + 1] ELSE series[-i]

\* Series.iloc[i]: entry i from the front, or from the back for i < 0.
iloc(series, i) == IF i >= 0 THEN series[i + 1] ELSE series[Len(series) + i + 1]

\* tech_base = 'pem' if 'pem' in str(tech_type_str).lower() else 'alk'
tech_base(tech_type_str) ==
    IF tech_type_str \in {"western_pem", "chinese_pem"} THEN "pem" ELSE "alk"

\* tech_type[region] if isinstance(tech_type, dict) else tech_type; a dict is
\* held as [dict |-> its entries], a string as [str |-> the name].
tech_type_str(tech_type, region) ==
    IF "dict" \in DOMAIN tech_type THEN tech_type.dict[region] ELSE tech_type.str

\* Mutant of total_component: the electricity cost is added after the scaling by
\* the efficiency.
total_component_unscaled_electricity(capital_component, fom_component, electricity_cost, electrolyzer_efficiency) ==
    RAdd(RMul(RAdd(capital_component, fom_component), electrolyzer_efficiency),
         electricity_cost)

\* total_component = (capital_component + fom_component + electricity_cost) * electrolyzer_efficiency
total_component(capital_component, fom_component, electricity_cost, electrolyzer_efficiency) ==
    RMul(RAdd(RAdd(capital_component, fom_component), electricity_cost),
         electrolyzer_efficiency)

\* Mutant of actual_fom: a percentage of 0 counts as not supplied.
actual_fom_by_truthiness(fom_percentage, fom, capex) ==
    IF fom_percentage # None /\ fom_percentage[1].sg # 0
    THEN RMul(RDiv(fom_percentage[1], RInt(100)), capex)
    ELSE fom

\* actual_fom: (fom_percentage / 100.0) * capex if fom_percentage is not None,
\* else fom.
actual_fom(fom_percentage, fom, capex) ==
    IF fom_percentage # None
    THEN RMul(RDiv(fom_percentage[1], RInt(100)), capex)
    ELSE fom

\* Mutant of safe_utilization_rate: the rate is used as supplied.
safe_utilization_rate_unclamped(utilization_rate) == utilization_rate

\* safe_utilization_rate = max(0.00001, utilization_rate)
safe_utilization_rate(utilization_rate) == RMax(min_utilization_rate, utilization_rate)

\* calculate_lcoh: the LCOH and its components dict, from returned stack and
\* BoP/EPC tables; a.year_index and a.fom_percentage are None or Some(value).
calculate_lcoh(stack, bop, a) ==
    LET crf == calculate_crf(a.wacc, lifetime_default)
        tech == tech_type_str(a.tech_type, a.region)
        index == IF a.year_index # None THEN a.year_index[1] ELSE -1
        stack_cost == iloc(stack[a.learning_model][tech].cost, index)
        bop_epc_key == <<a.region, tech_base(tech)>>
        bop_cost == iloc(bop[a.bop_epc_model][bop_epc_key].cost, index)
        capex == RAdd(stack_cost, bop_cost)
        capital_component == RDiv(RMul(crf, capex),
                                  RMul(RInt(hours_per_year),
                                       safe_utilization_rate(a.utilization_rate)))
        fom_component == RDiv(actual_fom(a.fom_percentage, a.fom, capex),
                              RMul(RInt(hours_per_year),
                                   safe_utilization_rate(a.utilization_rate)))
        total == total_component(capital_component, fom_component,
                                 a.electricity_cost, a.electrolyzer_efficiency)
    IN  IF IsErr(total)
        THEN [status |-> "ZeroDivisionError", args |-> a, data |-> <<>>]
        ELSE [status |-> "ok",
              args |-> a,
              data |-> [lcoh |-> total,
                        stack_cost |-> stack_cost,
                        bop_cost |-> bop_cost,
                        capex |-> capex,
                        capital_component |-> RMul(capital_component, a.electrolyzer_efficiency),
                        fom_component |-> RMul(fom_component, a.electrolyzer_efficiency),
                        electricity_component |-> RMul(a.electricity_cost,
                                                       a.electrolyzer_efficiency)]]

(***************************************************************************)
(* target_cost_utils.py: the inversion of the learning curve               *)
(***************************************************************************)
\* technologies_capacities_0 of the dashboard: each technology's base capacity
\* summed over the regions.
technologies_capacities_0(regions, base_capacities) ==
    [tech \in TechSet |->
        RSum([i \in 1..Len(regions) |-> RInt(base_capacities[regions[i]][tech])])]

\* sum(capacities_0.values())
sum_capacities_0(capacities_0) ==
    RSum([i \in 1..Len(TECHNOLOGIES) |-> capacities_0[TECHNOLOGIES[i]]])

\* The capacity returned for target_cost >= c_0 by calculate_required_capacity_stack.
stack_base_capacity(tech, capacities_0, learning_model, pem_additional_capacity, alk_additional_capacity) ==
    IF learning_model = "shared"
    THEN RAdd(RAdd(sum_capacities_0(capacities_0), pem_additional_capacity),
              alk_additional_capacity)
    ELSE IF learning_model = "first_layer"
    THEN IF IsPem(tech)
         THEN RAdd(RAdd(capacities_0["western_pem"], capacities_0["chinese_pem"]),
                   pem_additional_capacity)
         ELSE RAdd(RAdd(capacities_0["western_alk"], capacities_0["chinese_alk"]),
                   alk_additional_capacity)
    ELSE IF IsPem(tech) THEN RAdd(capacities_0[tech], pem_additional_capacity)
         ELSE RAdd(capacities_0[tech], alk_additional_capacity)

\* x_0_total, x_0_type or x_0 of the stack inversion: the base capacity of the pool
\* of the learning model.
stack_x_0(tech, capacities_0, learning_model, pem_additional_capacity, alk_additional_capacity) ==
    IF learning_model = "shared"
    THEN RAdd(RAdd(sum_capacities_0(capacities_0), pem_additional_capacity),
              alk_additional_capacity)
    ELSE IF learning_model = "first_layer"
    THEN IF IsPem(tech)
         THEN RAdd(RAdd(capacities_0["western_pem"], capacities_0["chinese_pem"]),
                   pem_additional_capacity)
         ELSE RAdd(RAdd(capacities_0["western_alk"], capacities_0["chinese_alk"]),
                   alk_additional_capacity)
    ELSE IF IsPem(tech) THEN RAdd(capacities_0[tech], pem_additional_capacity)
         ELSE RAdd(capacities_0[tech], alk_additional_capacity)

\* Mutant of calculate_required_capacity_stack: the exponent is alpha, not 1 / alpha.
calculate_required_capacity_stack_exponent_alpha(tech, target_cost, costs_0, capacities_0, alphas, learning_model, pem_additional_capacity, alk_additional_capacity) ==
    IF RLeq(costs_0[tech], target_cost)
    THEN stack_base_capacity(tech, capacities_0, learning_model,
                             pem_additional_capacity, alk_additional_capacity)
    ELSE RMul(stack_x_0(tech, capacities_0, learning_model,
                        pem_additional_capacity, alk_additional_capacity),
              RPow(RDiv(target_cost, costs_0[tech]), alphas[tech]))

\* calculate_required_capacity_stack: x_0 * (target_cost / c_0) ** (1 / alpha)
calculate_required_capacity_stack(tech, target_cost, costs_0, capacities_0, alphas, learning_model, pem_additional_capacity, alk_additional_capacity) ==
    LET alpha == alphas[tech]
        c_0 == costs_0[tech]
    IN  IF RLeq(c_0, target_cost)
        THEN stack_base_capacity(tech, capacities_0, learning_model,
                                 pem_additional_capacity, alk_additional_capacity)
        ELSE RMul(stack_x_0(tech, capacities_0, learning_model,
                            pem_additional_capacity, alk_additional_capacity),
                  RPow(RDiv(target_cost, c_0), RDiv(ROne, alpha)))

\* Mutant of calculate_learning_investment_stack: no early return for
\* target_cost >= c_0.
calculate_learning_investment_stack_without_target_check(tech, target_cost, required_capacity, costs_0, capacities_0, alphas, learning_model, pem_additional_capacity, alk_additional_capacity) ==
    RMul(RDiv(ROne, RAdd(ROne, alphas[tech])),
         RSub(RMul(target_cost, required_capacity),
              RMul(costs_0[tech],
                   stack_x_0(tech, capacities_0, learning_model,
                             pem_additional_capacity, alk_additional_capacity))))

\* calculate_learning_investment_stack:
\* (1 / (1 + alpha)) * (target_cost * required_capacity - c_0 * x_0)
calculate_learning_investment_stack(tech, target_cost, required_capacity, costs_0, capacities_0, alphas, learning_model, pem_additional_capacity, alk_additional_capacity) ==
    LET alpha == alphas[tech]
        c_0 == costs_0[tech]
    IN  IF RLeq(c_0, target_cost) THEN RZero
        ELSE RMul(RDiv(ROne, RAdd(ROne, alpha)),
                  RSub(RMul(target_cost, required_capacity),
                       RMul(c_0, stack_x_0(tech, capacities_0, learning_model,
                                           pem_additional_capacity,
                                           alk_additional_capacity))))

\* sum(region_capacities[region].values())
sum_region_capacities(region_capacities, region) ==
    RSum([i \in 1..Len(TECHNOLOGIES) |-> RInt(region_capacities[region][TECHNOLOGIES[i]])])

\* x_0_region or x_0_total of the BoP & EPC inversion.
bop_epc_x_0(region, region_capacities, learning_model, regions) ==
    IF learning_model = "local" THEN sum_region_capacities(region_capacities, region)
    ELSE RSum([i \in 1..Len(regions) |-> sum_region_capacities(region_capacities, regions[i])])

\* calculate_required_capacity_bop_epc
calculate_required_capacity_bop_epc(region, tech_type, target_cost, costs_0, region_capacities, alphas, learning_model, regions) ==
    LET alpha == alphas[region]
        c_0 == costs_0[<<region, tech_type>>]
    IN  IF RLeq(c_0, target_cost)
        THEN IF learning_model = "local"
             THEN sum_region_capacities(region_capacities, region)
             ELSE RSum([i \in 1..Len(regions) |->
                          sum_region_capacities(region_capacities, regions[i])])
        ELSE RMul(bop_epc_x_0(region, region_capacities, learning_model, regions),
                  RPow(RDiv(target_cost, c_0), RDiv(ROne, alpha)))

\* Mutant of calculate_learning_investment_bop_epc: alpha = -1 is guarded and
\* yields no investment.
calculate_learning_investment_bop_epc_guarded(region, tech_type, target_cost, required_capacity, costs_0, region_capacities, alphas, learning_model, regions) ==
    IF RLeq(costs_0[<<region, tech_type>>], target_cost) \/ REq(alphas[region], RInt(-1))
    THEN RZero
    ELSE RMul(RDiv(ROne, RAdd(ROne, alphas[region])),
              RSub(RMul(target_cost, required_capacity),
                   RMul(costs_0[<<region, tech_type>>],
                        bop_epc_x_0(region, region_capacities, learning_model, regions))))

\* calculate_learning_investment_bop_epc
calculate_learning_investment_bop_epc(region, tech_type, target_cost, required_capacity, costs_0, region_capacities, alphas, learning_model, regions) ==
    LET alpha == alphas[region]
        c_0 == costs_0[<<region, tech_type>>]
    IN  IF RLeq(c_0, target_cost) THEN RZero
        ELSE RMul(RDiv(ROne, RAdd(ROne, alpha)),
                  RSub(RMul(target_cost, required_capacity),
                       RMul(c_0, bop_epc_x_0(region, region_capacities,
                                             learning_model, regions))))

\* The exception a value stands for.
Raised(a) == IF IsErr(a) THEN "ZeroDivisionError" ELSE "OverflowError"

\* One row of generate_target_cost_data_stack / _bop_epc: the required capacity,
\* then the learning investment, or the exception the first failing call raised.
target_cost_row(required_capacity, learning_investment) ==
    IF Bad(required_capacity) THEN [status |-> Raised(required_capacity), data |-> <<>>]
    ELSE IF Bad(learning_investment)
    THEN [status |-> Raised(learning_investment), data |-> <<>>]
    ELSE [status |-> "ok",
          data |-> [required_capacity |-> required_capacity,
                    learning_investment |-> learning_investment]]

(***************************************************************************)
(* State: the configuration the dashboard passes to the engine, and what   *)
(* each engine call returned.                                              *)
(***************************************************************************)
VARIABLES
    cfg,            \* the inputs: regions, capacities, growth rates, costs, exponents, horizon
    stack_data,     \* outcome of generate_regional_stack_data
    bop_epc_data,   \* outcome of generate_regional_bop_epc_data
    lcoh,           \* outcome of the last calculate_lcoh call
    inv,            \* outcome of the last inversion call
    partial_call,   \* outcome of an engine call on inputs with an entry left out
    sensitivity,    \* outcome of generate_lcoh_sensitivity
    growth,         \* outcome of calculate_regional_capacity_growth
    alpha,          \* outcome of alpha_from_learning_rate
    calls,          \* the engine calls of a session, in order, each with its result
    crf,            \* outcome of calculate_crf
    projections,    \* outcome of generate_lcoh_projections
    investments,    \* outcome of the forward learning-investment generators
    target_table    \* outcome of the target-cost table generators

vars == <<cfg, stack_data, bop_epc_data, lcoh, inv, partial_call, sensitivity, growth, alpha, calls,
          crf, projections, investments, target_table>>

\* No call made yet.
NoCall == [status |-> "none", data |-> <<>>]

\* The results no call was made for.
more == <<crf, projections, investments, target_table>>

rest == <<partial_call, sensitivity, growth, alpha, calls, more>>

RestIdle ==
    /\ partial_call = NoCall
    /\ sensitivity = NoCall
    /\ growth = NoCall
    /\ alpha = NoCall
    /\ calls = <<>>
    /\ crf = NoCall
    /\ projections = NoCall
    /\ investments = NoCall
    /\ target_table = NoCall

\* Longest projection horizon explored.
MaxYears == 2

\* The region lists given to the engine (a sub-list of REGIONS of the dashboard).
RegionLists == {<<"usa", "china">>, <<"eu", "china">>}

RegionSet(regions) == {regions[i] : i \in 1..Len(regions)}

\* A region's base capacity per technology, MW: nothing installed, a region
\* under the 100 MW floor, and a region above it.
CapacityProfiles ==
    {[tech \in TechSet |-> 0],
     [tech \in TechSet |-> IF tech = "western_pem" THEN 30
                           ELSE IF tech = "chinese_alk" THEN 20 ELSE 0],
     [tech \in TechSet |-> IF tech = "western_pem" THEN 100
                           ELSE IF tech = "chinese_pem" THEN 50
                           ELSE IF tech = "western_alk" THEN 200 ELSE 150]}

\* A region's annual growth rate per technology: flat, growing, shrinking.
GrowthProfiles ==
    {[tech \in TechSet |-> RInt(0)],
     [tech \in TechSet |-> IF tech = "western_pem" THEN RFrac(1, 2)
                           ELSE IF tech = "chinese_alk" THEN RInt(1) ELSE RInt(0)],
     [tech \in TechSet |-> IF tech = "western_pem" THEN RFrac(-1, 2) ELSE RInt(0)]}

\* Curve exponents of the projections (alpha = log2(1 - LR/100) of LR = 75, 50
\* and -100 percent).
AlphaChoices == {RInt(-2), RInt(-1), RInt(1)}

\* Base costs, $/kW.
StackCosts0 ==
    [tech \in TechSet |-> IF tech = "western_pem" THEN RInt(600)
                          ELSE IF tech = "chinese_pem" THEN RInt(400)
                          ELSE IF tech = "western_alk" THEN RInt(500) ELSE RInt(300)]

BopCosts0Pem(rs) == [r \in rs |-> IF r = "china" THEN RInt(900) ELSE RInt(1900)]

BopCosts0Alk(rs) == [r \in rs |-> IF r = "china" THEN RInt(700) ELSE RInt(1500)]

\* The configurations over the given region lists, capacity and growth profiles,
\* exponents and horizons.
Configs(regionLists, capacityProfiles, growthProfiles, alphaChoices, yearChoices) ==
    {[regions |-> rl,
      base_capacities |-> bc,
      region_tech_growth_rates |-> gr,
      stack_costs_0 |-> StackCosts0,
      stack_alphas |-> [tech \in TechSet |-> IF IsPem(tech) THEN a ELSE RInt(-2)],
      bop_costs_0_pem |-> BopCosts0Pem(RegionSet(rl)),
      bop_costs_0_alk |-> BopCosts0Alk(RegionSet(rl)),
      bop_alphas_pem |-> [r \in RegionSet(rl) |-> IF r = "china" THEN a ELSE RInt(-1)],
      bop_alphas_alk |-> [r \in RegionSet(rl) |-> RInt(-2)],
      years |-> y,
      base_year |-> 2023] :
        rl \in regionLists,
        bc \in UNION {[RegionSet(l) -> capacityProfiles] : l \in regionLists},
        gr \in UNION {[RegionSet(l) -> growthProfiles] : l \in regionLists},
        a \in alphaChoices, y \in yearChoices}

\* A configuration whose dicts have exactly the regions of its list as keys.
WellKeyed(c) ==
    /\ DOMAIN c.base_capacities = RegionSet(c.regions)
    /\ DOMAIN c.region_tech_growth_rates = RegionSet(c.regions)

\* The configurations of the projection runs.
ProjectionConfigs ==
    {c \in Configs(RegionLists, CapacityProfiles, GrowthProfiles, AlphaChoices, 0..MaxYears) :
        WellKeyed(c)}

Init ==
    /\ cfg \in ProjectionConfigs
    /\ stack_data = NoCall
    /\ bop_epc_data = NoCall
    /\ lcoh = NoCall
    /\ inv = NoCall
    /\ RestIdle

\* The call has returned its tables.
StackOk == stack_data.status = "ok"

BopOk == bop_epc_data.status = "ok"

\* The dashboard's call of generate_regional_stack_data.
GenerateRegionalStackData ==
    /\ stack_data = NoCall
    /\ stack_data' = generate_regional_stack_data(cfg.regions, cfg.stack_costs_0,
                         cfg.base_capacities, cfg.region_tech_growth_rates,
                         cfg.stack_alphas, cfg.years, cfg.base_year)
    /\ UNCHANGED <<cfg, bop_epc_data, lcoh, inv>>
    /\ UNCHANGED rest

\* The dashboard's call of generate_regional_bop_epc_data.
GenerateRegionalBopEpcData ==
    /\ bop_epc_data = NoCall
    /\ bop_epc_data' = generate_regional_bop_epc_data(cfg.regions, cfg.bop_costs_0_pem,
                           cfg.bop_costs_0_alk, cfg.base_capacities,
                           cfg.region_tech_growth_rates, cfg.bop_alphas_pem,
                           cfg.bop_alphas_alk, cfg.years, cfg.base_year)
    /\ UNCHANGED <<cfg, stack_data, lcoh, inv>>
    /\ UNCHANGED rest

Next ==
    \/ GenerateRegionalStackData
    \/ GenerateRegionalBopEpcData

Spec == Init /\ [][Next]_vars

(***************************************************************************)
(* The LCOH runs: the projections of a few configurations, then one call   *)
(* of calculate_lcoh on the returned tables.                               *)
(***************************************************************************)
\* Regions with capacity installed, growing, over the longest horizon.
LcohConfigs ==
    {c \in Configs({<<"usa", "china">>},
                   {p \in CapacityProfiles : p["western_pem"] > 0},
                   {g \in GrowthProfiles : RLess(RZero, g["western_pem"])},
                   {RInt(-1)}, {MaxYears}) : WellKeyed(c)}

\* The arguments of the calculate_lcoh calls explored.
LcohArgs ==
    [tech_type : {[str |-> "western_pem"], [str |-> "chinese_alk"],
                  [dict |-> [r \in RegionSet(cfg.regions) |->
                                IF r = "china" THEN "chinese_alk" ELSE "western_pem"]]},
     region : RegionSet(cfg.regions),
     wacc : {RFrac(2, 25), RFrac(1, 10)},
     fom : {RInt(50)},
     utilization_rate : {RFrac(1, 2), RInt(0), RFrac(-1, 2), min_utilization_rate},
     electricity_cost : {RFrac(1, 20)},
     electrolyzer_efficiency : {RInt(55)},
     learning_model : StackModels,
     bop_epc_model : BopModels,
     year_index : {None, Some(0)},
     fom_percentage : {None, Some(RInt(2)), Some(RInt(0))}]

InitLcoh ==
    /\ cfg \in LcohConfigs
    /\ stack_data = NoCall
    /\ bop_epc_data = NoCall
    /\ lcoh = NoCall
    /\ inv = NoCall
    /\ RestIdle

\* One call of calculate_lcoh on the returned tables.
CalculateLcoh ==
    /\ StackOk
    /\ BopOk
    /\ lcoh = NoCall
    /\ \E a \in LcohArgs : lcoh' = calculate_lcoh(stack_data.data, bop_epc_data.data, a)
    /\ UNCHANGED <<cfg, stack_data, bop_epc_data, inv>>
    /\ UNCHANGED rest

NextLcoh ==
    \/ GenerateRegionalStackData
    \/ GenerateRegionalBopEpcData
    \/ CalculateLcoh

SpecLcoh == InitLcoh /\ [][NextLcoh]_vars

(***************************************************************************)
(* The inversion runs: one row of the target-cost tables of the dashboard, *)
(* for a stack technology or for the BoP & EPC of a region.                *)
(***************************************************************************)
\* Curve exponents of the inversion runs, next to the -2 and -1 of every
\* configuration: steep, none, negative learning, and nearly none.
InversionAlphas == {RFrac(-1, 2), RInt(0), RInt(1), RFrac(-1, 512), RInt(-1)}

\* Installed capacities and exponents of the inversion runs.
InversionConfigs ==
    {c \in Configs({<<"usa", "china">>},
                   {p \in CapacityProfiles : p["western_pem"] > 0},
                   {g \in GrowthProfiles : g["western_pem"] = RZero},
                   InversionAlphas, {0}) : WellKeyed(c)}

\* target_cost / c_0 of the rows explored.
TargetRatios == {RFrac(1, 4), RFrac(1, 9), RInt(1), RFrac(3, 2)}

\* The additional capacities: the defaults of the calculators, and those the
\* dashboard passes.
AdditionalCapacities ==
    {[pem |-> RInt(0), alk |-> RInt(0)],
     [pem |-> RInt(additional_pem_capacity), alk |-> RInt(additional_alk_capacity)]}

\* bop_epc_costs_0 of the dashboard: the base cost by region and technology type.
bop_epc_costs_0 ==
    [k \in BopKeys(cfg.regions) |->
        IF k[2] = "pem" THEN cfg.bop_costs_0_pem[k[1]] ELSE cfg.bop_costs_0_alk[k[1]]]

InitInversion ==
    /\ cfg \in InversionConfigs
    /\ stack_data = NoCall
    /\ bop_epc_data = NoCall
    /\ lcoh = NoCall
    /\ inv = NoCall
    /\ RestIdle

\* One row of generate_target_cost_data_stack (rows whose required capacity is no
\* rational are left out).
TargetCostRowStack ==
    /\ inv = NoCall
    /\ \E tech \in TechSet, learning_model \in StackModels, ratio \in TargetRatios, add \in AdditionalCapacities :
          LET capacities_0 == technologies_capacities_0(cfg.regions, cfg.base_capacities)
              target_cost == RMul(cfg.stack_costs_0[tech], ratio)
              req_cap == calculate_required_capacity_stack(tech, target_cost,
                             cfg.stack_costs_0, capacities_0, cfg.stack_alphas,
                             learning_model, add.pem, add.alk)
              learn_inv == calculate_learning_investment_stack(tech, target_cost, req_cap,
                               cfg.stack_costs_0, capacities_0, cfg.stack_alphas,
                               learning_model, add.pem, add.alk)
          IN  /\ ~IsIrr(req_cap)
              /\ inv' = target_cost_row(req_cap, learn_inv) @@
                        [kind |-> "stack", tech |-> tech, learning_model |-> learning_model,
                         additional |-> add, target_cost |-> target_cost,
                         c_0 |-> cfg.stack_costs_0[tech], alpha |-> cfg.stack_alphas[tech],
                         x_0 |-> stack_x_0(tech, capacities_0, learning_model,
                                           add.pem, add.alk)]
    /\ UNCHANGED <<cfg, stack_data, bop_epc_data, lcoh>>
    /\ UNCHANGED rest

\* One row of generate_target_cost_data_bop_epc.
TargetCostRowBopEpc ==
    /\ inv = NoCall
    /\ \E region \in RegionSet(cfg.regions), tech_type \in BopCategories, learning_model \in BopModels, ratio \in TargetRatios :
          LET c_0 == bop_epc_costs_0[<<region, tech_type>>]
              target_cost == RMul(c_0, ratio)
              req_cap == calculate_required_capacity_bop_epc(region, tech_type, target_cost,
                             bop_epc_costs_0, cfg.base_capacities, cfg.bop_alphas_pem,
                             learning_model, cfg.regions)
              learn_inv == calculate_learning_investment_bop_epc(region, tech_type,
                               target_cost, req_cap, bop_epc_costs_0, cfg.base_capacities,
                               cfg.bop_alphas_pem, learning_model, cfg.regions)
          IN  /\ ~IsIrr(req_cap)
              /\ inv' = target_cost_row(req_cap, learn_inv) @@
                        [kind |-> "bop_epc", region |-> region, tech_type |-> tech_type,
                         learning_model |-> learning_model, target_cost |-> target_cost,
                         c_0 |-> c_0, alpha |-> cfg.bop_alphas_pem[region],
                         x_0 |-> bop_epc_x_0(region, cfg.base_capacities,
                                             learning_model, cfg.regions)]
    /\ UNCHANGED <<cfg, stack_data, bop_epc_data, lcoh>>
    /\ UNCHANGED rest

NextInversion ==
    \/ TargetCostRowStack
    \/ TargetCostRowBopEpc

SpecInversion == InitInversion /\ [][NextInversion]_vars

(***************************************************************************)
(* Calls with an entry left out: generate_regional_bop_epc_data given a    *)
(* technologies list or a dict that lacks a technology or a region.        *)
(***************************************************************************)
\* `tech in regional_capacities[region]['capacity_by_tech']`: the dict is keyed by
\* the technologies list of the call.
listed(tech, technologies) == \E j \in 1..Len(technologies) : technologies[j] = tech

\* Both technologies of the category of tech are listed (the condition of the
\* conditional expressions of the cost loop).
category_listed(tech, technologies) ==
    IF IsPem(tech)
    THEN listed("western_pem", technologies) /\ listed("chinese_pem", technologies)
    ELSE listed("western_alk", technologies) /\ listed("chinese_alk", technologies)

\* d[region][tech] raises KeyError for a region of the list and a listed technology.
lacks_entry(regions, technologies, d) ==
    \E i \in 1..Len(regions) : \E j \in 1..Len(technologies) :
        \/ regions[i] \notin DOMAIN d
        \/ technologies[j] \notin DOMAIN d[regions[i]]

\* d[region] raises KeyError for a region of the list.
lacks_region(regions, d) == \E i \in 1..Len(regions) : regions[i] \notin DOMAIN d

\* A lookup made before the cost loop raises KeyError: base_capacities[region][tech],
\* region_tech_growth_rates[region][tech] (years >= 1), costs_0_pem[region],
\* costs_0_alk[region].
lookup_fails(regions, technologies, costs_0_pem, costs_0_alk, base_capacities, region_tech_growth_rates, years) ==
    \/ lacks_entry(regions, technologies, base_capacities)
    \/ years >= 1 /\ lacks_entry(regions, technologies, region_tech_growth_rates)
    \/ lacks_region(regions, costs_0_pem)
    \/ lacks_region(regions, costs_0_alk)

\* What pem_cap / alk_cap add up: the capacity of a listed technology, and nothing
\* for a technology that is not a key of capacity_by_tech.
capacities_of_listed(regions, technologies, base_capacities) ==
    [r \in RegionSet(regions) |-> [tech \in TechSet |->
        IF listed(tech, technologies) THEN base_capacities[r][tech] ELSE 0]]

\* What the cost loop adds up: region_capacity_pem and region_capacity_alk are the
\* sum of the two technologies of the category if both are listed, else 0.
capacities_of_listed_categories(regions, technologies, base_capacities) ==
    [r \in RegionSet(regions) |-> [tech \in TechSet |->
        IF listed(tech, technologies) /\ category_listed(tech, technologies)
        THEN base_capacities[r][tech] ELSE 0]]

\* The growth rates looked up: those of the listed technologies (none with years = 0).
growth_rates_of_listed(regions, technologies, region_tech_growth_rates) ==
    [r \in RegionSet(regions) |-> [tech \in TechSet |->
        IF /\ listed(tech, technologies)
           /\ r \in DOMAIN region_tech_growth_rates
           /\ tech \in DOMAIN region_tech_growth_rates[r]
        THEN region_tech_growth_rates[r][tech] ELSE RZero]]

\* learning_factor / global_learning_factor, of a call with its technologies list:
\* cost_capacities are the capacities the cost loop adds up, list_capacities those
\* of x_0_total (regional_capacities[region]['capacity'][0]).
learning_factor_of_listed(model, region, regions, cost_capacities, list_capacities, growth_rates, alphas_pem, year_idx) ==
    IF model = "local"
    THEN RPow(RDiv(region_total_capacity(region, cost_capacities, growth_rates, year_idx),
                   region_total_initial_capacity(region, cost_capacities, growth_rates)),
              alphas_pem[region])
    ELSE RPow(RDiv(total_global_capacity(regions, cost_capacities, growth_rates, year_idx),
                   x_0_total_adjusted(regions, list_capacities, growth_rates)),
              alphas_pem[region])

\* The tables of a call with its technologies list.
bop_tables_of_listed(regions, technologies, costs_0_pem, costs_0_alk, cost_capacities, list_capacities, growth_rates, alphas_pem, years, base_year) ==
    [m \in BopModels |-> [k \in BopKeys(regions) |->
        [year |-> [t \in 1..(years + 1) |-> base_year + t - 1],
         capacity |-> [t \in 1..(years + 1) |->
                          region_capacity(k[1], k[2], list_capacities, growth_rates, t - 1)],
         cost |-> [t \in 1..(years + 1) |->
                      IF t = 1 THEN (IF k[2] = "pem" THEN costs_0_pem[k[1]]
                                     ELSE costs_0_alk[k[1]])
                      ELSE RMul(IF k[2] = "pem" THEN costs_0_pem[k[1]]
                                ELSE costs_0_alk[k[1]],
                                learning_factor_of_listed(m, k[1], regions, cost_capacities,
                                    list_capacities, growth_rates, alphas_pem, t - 1))]]]]

\* The factors the cost loop computes for one region: years 1..years, both topologies.
region_factors(region, regions, cost_capacities, list_capacities, growth_rates, alphas_pem, years) ==
    [m \in BopModels |-> [t \in 1..years |->
        learning_factor_of_listed(m, region, regions, cost_capacities, list_capacities,
                                  growth_rates, alphas_pem, t)]]

\* The exception a region's factors raise, if any.
factors_status(factors) ==
    IF \E m \in DOMAIN factors : \E t \in DOMAIN factors[m] : IsErr(factors[m][t])
    THEN "ZeroDivisionError"
    ELSE IF \E m \in DOMAIN factors : \E t \in DOMAIN factors[m] : IsOvf(factors[m][t])
    THEN "OverflowError"
    ELSE "ok"

RECURSIVE cost_loop_status(_, _, _, _, _, _, _)
\* The cost loop, region after region from regions[i] on: alphas_pem[region] raises
\* KeyError, the power raises ZeroDivisionError or OverflowError, and the first
\* exception ends the call.
cost_loop_status(i, regions, cost_capacities, list_capacities, growth_rates, alphas_pem, years) ==
    IF i > Len(regions) THEN "ok"
    ELSE IF regions[i] \notin DOMAIN alphas_pem THEN "KeyError"
    ELSE IF factors_status(region_factors(regions[i], regions, cost_capacities,
                list_capacities, growth_rates, alphas_pem, years)) # "ok"
    THEN factors_status(region_factors(regions[i], regions, cost_capacities,
                list_capacities, growth_rates, alphas_pem, years))
    ELSE cost_loop_status(i + 1, regions, cost_capacities, list_capacities,
                          growth_rates, alphas_pem, years)

\* The call once its lookups before the cost loop have succeeded.
bop_outcome_of_listed(status, regions, technologies, costs_0_pem, costs_0_alk, cost_capacities, list_capacities, growth_rates, alphas_pem, years, base_year) ==
    IF status = "ok"
    THEN [status |-> "ok",
          data |-> bop_tables_of_listed(regions, technologies, costs_0_pem, costs_0_alk,
                       cost_capacities, list_capacities, growth_rates, alphas_pem,
                       years, base_year)]
    ELSE [status |-> status, data |-> <<>>]

\* generate_regional_bop_epc_data with its technologies parameter, on dicts that
\* may lack keys: the tables, or the exception raised.
generate_regional_bop_epc_data_of_listed(regions, technologies, costs_0_pem, costs_0_alk, base_capacities, region_tech_growth_rates, alphas_pem, alphas_alk, years, base_year) ==
    IF lookup_fails(regions, technologies, costs_0_pem, costs_0_alk, base_capacities,
                    region_tech_growth_rates, years)
    THEN [status |-> "KeyError", data |-> <<>>]
    ELSE bop_outcome_of_listed(
             IF years = 0 THEN "ok"
             ELSE cost_loop_status(1, regions,
                      capacities_of_listed_categories(regions, technologies, base_capacities),
                      capacities_of_listed(regions, technologies, base_capacities),
                      growth_rates_of_listed(regions, technologies, region_tech_growth_rates),
                      alphas_pem, years),
             regions, technologies, costs_0_pem, costs_0_alk,
             capacities_of_listed_categories(regions, technologies, base_capacities),
             capacities_of_listed(regions, technologies, base_capacities),
             growth_rates_of_listed(regions, technologies, region_tech_growth_rates),
             alphas_pem, years, base_year)

\* The dict d without its key k.
Without(d, k) == [x \in DOMAIN d \ {k} |-> d[x]]

\* The dict of dicts d without the key k of its entry r.
WithoutInner(d, r, k) == [d EXCEPT ![r] = Without(d[r], k)]

\* The entries a call is made without: none, a technology of the list, or a key of
\* one of the dicts.
Omissions ==
    {"none", "technologies:chinese_pem", "technologies:alk", "technologies:all but western_pem",
     "base_capacities:region", "base_capacities:technology",
     "region_tech_growth_rates:region", "region_tech_growth_rates:technology",
     "costs_0_pem:region", "costs_0_alk:region", "alphas_pem:region", "alphas_alk:region"}

\* The technologies list of a call.
technologies_given(omission) ==
    IF omission = "technologies:chinese_pem"
    THEN <<"western_pem", "western_alk", "chinese_alk">>
    ELSE IF omission = "technologies:alk" THEN <<"western_pem", "chinese_pem">>
    ELSE IF omission = "technologies:all but western_pem" THEN <<"western_pem">>
    ELSE TECHNOLOGIES

\* The arguments of a call of the configuration c made without the entry: the
\* region left out is the last of the list, the technology chinese_pem.
arguments_given(c, omission) ==
    [regions |-> c.regions,
     technologies |-> technologies_given(omission),
     costs_0_pem |-> IF omission = "costs_0_pem:region"
                     THEN Without(c.bop_costs_0_pem, c.regions[Len(c.regions)])
                     ELSE c.bop_costs_0_pem,
     costs_0_alk |-> IF omission = "costs_0_alk:region"
                     THEN Without(c.bop_costs_0_alk, c.regions[Len(c.regions)])
                     ELSE c.bop_costs_0_alk,
     base_capacities |->
         IF omission = "base_capacities:region"
         THEN Without(c.base_capacities, c.regions[Len(c.regions)])
         ELSE IF omission = "base_capacities:technology"
         THEN WithoutInner(c.base_capacities, c.regions[Len(c.regions)], "chinese_pem")
         ELSE c.base_capacities,
     region_tech_growth_rates |->
         IF omission = "region_tech_growth_rates:region"
         THEN Without(c.region_tech_growth_rates, c.regions[Len(c.regions)])
         ELSE IF omission = "region_tech_growth_rates:technology"
         THEN WithoutInner(c.region_tech_growth_rates, c.regions[Len(c.regions)], "chinese_pem")
         ELSE c.region_tech_growth_rates,
     alphas_pem |-> IF omission = "alphas_pem:region"
                    THEN Without(c.bop_alphas_pem, c.regions[Len(c.regions)])
                    ELSE c.bop_alphas_pem,
     alphas_alk |-> IF omission = "alphas_alk:region"
                    THEN Without(c.bop_alphas_alk, c.regions[Len(c.regions)])
                    ELSE c.bop_alphas_alk,
     years |-> c.years,
     base_year |-> c.base_year]

\* The outcome of the call on the arguments a, with what was left out.
call_given(a, omission) ==
    [omission |-> omission, args |-> a] @@
    generate_regional_bop_epc_data_of_listed(a.regions, a.technologies, a.costs_0_pem,
        a.costs_0_alk, a.base_capacities, a.region_tech_growth_rates, a.alphas_pem,
        a.alphas_alk, a.years, a.base_year)

\* A call of generate_regional_bop_epc_data with an entry left out.
GenerateRegionalBopEpcDataWithout ==
    /\ partial_call = NoCall
    /\ \E omission \in Omissions :
           partial_call' = call_given(arguments_given(cfg, omission), omission)
    /\ UNCHANGED <<cfg, stack_data, bop_epc_data, lcoh, inv>>
    /\ UNCHANGED <<sensitivity, growth, alpha, calls>>
    /\ UNCHANGED more

NextKeys ==
    \/ GenerateRegionalBopEpcData
    \/ GenerateRegionalBopEpcDataWithout

SpecKeys == Init /\ [][NextKeys]_vars

(***************************************************************************)
(* The capacity runs: one call of calculate_regional_capacity_growth for a *)
(* technology of a configuration.                                          *)
(***************************************************************************)
\* A call of calculate_regional_capacity_growth.
CalculateRegionalCapacityGrowth ==
    /\ growth = NoCall
    /\ \E technology \in TechSet :
           growth' = [status |-> "ok",
                      technology |-> technology,
                      data |-> calculate_regional_capacity_growth(technology, cfg.regions,
                                   cfg.region_tech_growth_rates, cfg.base_capacities,
                                   cfg.years, cfg.base_year)]
    /\ UNCHANGED <<cfg, stack_data, bop_epc_data, lcoh, inv>>
    /\ UNCHANGED <<partial_call, sensitivity, alpha, calls>>
    /\ UNCHANGED more

NextGrowth == CalculateRegionalCapacityGrowth

SpecGrowth == Init /\ [][NextGrowth]_vars

(***************************************************************************)
(* The exponent runs: alpha_from_learning_rate of one learning rate.  The  *)
(* logarithm of a rational is irrational unless the rational is a power of *)
(* two; it is held as the pair lo, hi of neighbouring multiples of         *)
(* 1 / LogScale that enclose it, equal where the logarithm is exact.       *)
(***************************************************************************)
\* The logarithm is enclosed to 1 / LogScale.
LogScale == 100

RECURSIVE BLog2Bits(_, _, _)
\* The greatest e < 2 ^ (j + 1) with b * 2 ^ e <= a, bit by bit from bit j down,
\* for naturals a >= b >= 1.
BLog2Bits(a, b, j) ==
    IF j < 0 THEN 0
    ELSE IF BLeq(BMul(b, BPowNat(BNat(2), 2 ^ j)), a)
    THEN 2 ^ j + BLog2Bits(a, BMul(b, BPowNat(BNat(2), 2 ^ j)), j - 1)
    ELSE BLog2Bits(a, b, j - 1)

\* The enclosure of a logarithm of floor e / LogScale: exact where the floor is met.
Enclosure(e, exact, sg) ==
    IF exact THEN [lo |-> RFrac(sg * e, LogScale), hi |-> RFrac(sg * e, LogScale)]
    ELSE IF sg > 0 THEN [lo |-> RFrac(e, LogScale), hi |-> RFrac(e + 1, LogScale)]
    ELSE [lo |-> RFrac(-(e + 1), LogScale), hi |-> RFrac(-e, LogScale)]

\* log2(big / small) with the sign sg, from the powers pb = big ^ LogScale and
\* ps = small ^ LogScale.
EnclosureOfPowers(pb, ps, e, sg) ==
    Enclosure(e, BMul(ps, BPowNat(BNat(2), e)) = pb, sg)

\* math.log(x, 2) for a rational x > 0.
math_log2(x) ==
    IF BLess(x.n, x.d)
    THEN EnclosureOfPowers(BPowNat(x.d, LogScale), BPowNat(x.n, LogScale),
             BLog2Bits(BPowNat(x.d, LogScale), BPowNat(x.n, LogScale),
                       Log2Ceil(LogScale * (Log2Ceil(BVal(x.d)) + 1))), -1)
    ELSE EnclosureOfPowers(BPowNat(x.n, LogScale), BPowNat(x.d, LogScale),
             BLog2Bits(BPowNat(x.n, LogScale), BPowNat(x.d, LogScale),
                       Log2Ceil(LogScale * (Log2Ceil(BVal(x.n)) + 1))), 1)

\* math.log of an argument: ValueError (math domain error) at or below 0.
math_log2_checked(x) ==
    IF x.sg <= 0 THEN [status |-> "ValueError", data |-> <<>>]
    ELSE [status |-> "ok", data |-> math_log2(x)]

\* Mutant of alpha_from_learning_rate: the rate is taken as a fraction, not
\* divided by 100.
alpha_from_learning_rate_of_fraction(learning_rate) ==
    math_log2_checked(RSub(ROne, learning_rate))

\* alpha_from_learning_rate: lr_decimal = learning_rate / 100,
\* alpha = math.log(1 - lr_decimal, 2).
alpha_from_learning_rate(learning_rate) ==
    math_log2_checked(RSub(ROne, RDiv(learning_rate, RInt(100))))

\* The learning rates converted, percent: from -20 to 130 in steps of a half.
LearningRates == {RFrac(k, 2) : k \in (-40)..260}

InitAlpha ==
    /\ cfg = CHOOSE c \in LcohConfigs : TRUE
    /\ stack_data = NoCall
    /\ bop_epc_data = NoCall
    /\ lcoh = NoCall
    /\ inv = NoCall
    /\ RestIdle

\* A call of alpha_from_learning_rate.
AlphaFromLearningRate ==
    /\ alpha = NoCall
    /\ \E learning_rate \in LearningRates :
           alpha' = [learning_rate |-> learning_rate] @@
                    alpha_from_learning_rate(learning_rate)
    /\ UNCHANGED <<cfg, stack_data, bop_epc_data, lcoh, inv>>
    /\ UNCHANGED <<partial_call, sensitivity, growth, calls>>
    /\ UNCHANGED more

NextAlpha == AlphaFromLearningRate

SpecAlpha == InitAlpha /\ [][NextAlpha]_vars

(***************************************************************************)
(* The sensitivity runs: the projections of a configuration, then one call *)
(* of generate_lcoh_sensitivity on the returned tables.                    *)
(***************************************************************************)
\* The 20 samples of np.linspace(lo, hi, 20).
sensitivity_samples == 20

SweptParameters == {"wacc", "utilization", "electricity", "efficiency"}

\* Mutant of linspace: the upper end is left out, np.linspace(..., endpoint=False).
linspace_without_endpoint(lo, hi, num, i) ==
    RAdd(lo, RMul(RInt(i), RDiv(RSub(hi, lo), RInt(num))))

\* np.linspace(lo, hi, num)[i], i from 0: lo + i * (hi - lo) / (num - 1).
linspace(lo, hi, num, i) ==
    RAdd(lo, RMul(RInt(i), RDiv(RSub(hi, lo), RInt(num - 1))))

\* The range swept for a parameter, a pair (min, max).
range_of(s, parameter) ==
    IF parameter = "wacc" THEN s.wacc_range
    ELSE IF parameter = "utilization" THEN s.utilization_range
    ELSE IF parameter = "electricity" THEN s.electricity_range
    ELSE s.efficiency_range

\* results[parameter]['parameter_values']
parameter_values(s, parameter) ==
    [i \in 1..sensitivity_samples |->
        linspace(range_of(s, parameter)[1], range_of(s, parameter)[2],
                 sensitivity_samples, i - 1)]

\* tech_type = 'chinese_alk' if region == 'china' else 'western_pem'
region_tech_type(region) == IF region = "china" THEN "chinese_alk" ELSE "western_pem"

\* Mutant of sample_args: the efficiency stays at its base value in every sweep.
sample_args_efficiency_fixed(s, parameter, value, year_index) ==
    [tech_type |-> [str |-> region_tech_type(s.region)],
     region |-> s.region,
     wacc |-> IF parameter = "wacc" THEN value ELSE s.base_wacc,
     fom |-> RInt(0),
     utilization_rate |-> IF parameter = "utilization" THEN value
                          ELSE s.base_utilization_rate,
     electricity_cost |-> IF parameter = "electricity" THEN value
                          ELSE s.base_electricity_cost,
     electrolyzer_efficiency |-> s.base_electrolyzer_efficiency,
     learning_model |-> s.stack_model,
     bop_epc_model |-> s.bop_epc_model,
     year_index |-> Some(year_index),
     fom_percentage |-> s.fom_percentage]

\* The arguments of the calculate_lcoh call of one sample of a sweep: the swept
\* parameter at the sample, the others at their base values, fom 0.
sample_args(s, parameter, value, year_index) ==
    [tech_type |-> [str |-> region_tech_type(s.region)],
     region |-> s.region,
     wacc |-> IF parameter = "wacc" THEN value ELSE s.base_wacc,
     fom |-> RInt(0),
     utilization_rate |-> IF parameter = "utilization" THEN value
                          ELSE s.base_utilization_rate,
     electricity_cost |-> IF parameter = "electricity" THEN value
                          ELSE s.base_electricity_cost,
     electrolyzer_efficiency |-> IF parameter = "efficiency" THEN value
                                 ELSE s.base_electrolyzer_efficiency,
     learning_model |-> s.stack_model,
     bop_epc_model |-> s.bop_epc_model,
     year_index |-> Some(year_index),
     fom_percentage |-> s.fom_percentage]

\* The calculate_lcoh calls of a sweep at one year index, sample after sample.
lcoh_series(stack, bop, s, parameter, year_index) ==
    [i \in 1..sensitivity_samples |->
        calculate_lcoh(stack, bop,
            sample_args(s, parameter,
                        linspace(range_of(s, parameter)[1], range_of(s, parameter)[2],
                                 sensitivity_samples, i - 1),
                        year_index))]

\* A call of a series raised.
series_raise(series) ==
    \E parameter \in DOMAIN series : \E i \in DOMAIN series[parameter] :
        series[parameter][i].status # "ok"

\* The LCOH values of a series.
lcoh_values_of(calls_made) == [i \in DOMAIN calls_made |-> calls_made[i].data.lcoh]

\* The results dict, from the calls at the target year and at the base year
\* (current is None without compare_with_current).
sensitivity_results(s, target, current) ==
    IF series_raise(target) \/ (current # None /\ series_raise(current[1]))
    THEN [status |-> "ZeroDivisionError", data |-> <<>>]
    ELSE [status |-> "ok",
          data |-> [parameter \in SweptParameters |->
                      [parameter_values |-> parameter_values(s, parameter),
                       lcoh_values |-> lcoh_values_of(target[parameter]),
                       current_lcoh_values |->
                           IF current # None
                           THEN Some(lcoh_values_of(current[1][parameter]))
                           ELSE None]]]

\* .iloc[i] raises IndexError on a column of length len.
iloc_out_of_range(len, i) == i >= len \/ i < -len

\* generate_lcoh_sensitivity; s holds the arguments after the two tables.
generate_lcoh_sensitivity(stack, bop, s) ==
    IF iloc_out_of_range(
           Len(stack[s.stack_model][region_tech_type(s.region)].cost),
           s.target_year - s.base_year)
    THEN [status |-> "IndexError", data |-> <<>>]
    ELSE sensitivity_results(s,
             [parameter \in SweptParameters |->
                 lcoh_series(stack, bop, s, parameter, s.target_year - s.base_year)],
             IF s.compare_with_current
             THEN Some([parameter \in SweptParameters |->
                           lcoh_series(stack, bop, s, parameter, 0)])
             ELSE None)

\* The arguments of the generate_lcoh_sensitivity calls explored: the ranges the
\* dashboard passes, a target year within the horizon or one past it.
SensitivityArgs ==
    [region : RegionSet(cfg.regions),
     base_wacc : {RFrac(2, 25)},
     base_fom : {RInt(50)},
     base_utilization_rate : {RFrac(1, 2)},
     base_electricity_cost : {RFrac(1, 20)},
     base_electrolyzer_efficiency : {RInt(55)},
     target_year : cfg.base_year..(cfg.base_year + cfg.years + 1),
     base_year : {cfg.base_year},
     wacc_range : {<<RFrac(1, 100), RFrac(15, 100)>>},
     utilization_range : {<<RFrac(1, 5), RInt(1)>>},
     electricity_range : {<<RFrac(1, 100), RFrac(15, 100)>>},
     efficiency_range : {<<RInt(40), RInt(70)>>},
     stack_model : {"second_layer"},
     bop_epc_model : {"local"},
     compare_with_current : BOOLEAN,
     fom_percentage : {None, Some(RInt(2))}]

\* One call of generate_lcoh_sensitivity on the returned tables.
GenerateLcohSensitivity ==
    /\ StackOk
    /\ BopOk
    /\ sensitivity = NoCall
    /\ \E s \in SensitivityArgs :
           sensitivity' = [args |-> s] @@
                          generate_lcoh_sensitivity(stack_data.data, bop_epc_data.data, s)
    /\ UNCHANGED <<cfg, stack_data, bop_epc_data, lcoh, inv>>
    /\ UNCHANGED <<partial_call, growth, alpha, calls>>
    /\ UNCHANGED more

NextSensitivity ==
    \/ GenerateRegionalStackData
    \/ GenerateRegionalBopEpcData
    \/ GenerateLcohSensitivity

SpecSensitivity == InitLcoh /\ [][NextSensitivity]_vars

(***************************************************************************)
(* The sessions: a few engine calls one after the other on the same input  *)
(* objects, each logged with its result.  A call is given the caller's     *)
(* dicts and tables themselves, so what it leaves of them is what the      *)
(* next call is given.                                                     *)
(***************************************************************************)
\* Longest session explored, in calls.
MaxCalls == 4

\* The whole MW of a capacity.
WholeMW(a) == IF a.sg = 0 THEN 0 ELSE BVal(a.n) \div BVal(a.d)

\* Mutant of base_capacities_after_growth: the compounding is done on the caller's
\* dict, which is left at the capacities of the final year (in whole MW).
base_capacities_after_growth_in_place(technology, regions, region_tech_growth_rates, base_capacities, years) ==
    [r \in DOMAIN base_capacities |->
        [base_capacities[r] EXCEPT ![technology] =
            WholeMW(GrowthSeries(RInt(base_capacities[r][technology]),
                                 region_tech_growth_rates[r][technology], years))]]

\* base_capacities after calculate_regional_capacity_growth: the call copies each
\* number into its own current_capacities and compounds there; the caller's dict
\* is only read.
base_capacities_after_growth(technology, regions, region_tech_growth_rates, base_capacities, years) ==
    base_capacities

RECURSIVE base_capacities_after_stack(_, _, _, _, _)
\* base_capacities after generate_regional_stack_data, which calls
\* calculate_regional_capacity_growth for the first i technologies in turn.
base_capacities_after_stack(i, regions, region_tech_growth_rates, base_capacities, years) ==
    IF i = 0 THEN base_capacities
    ELSE base_capacities_after_growth(TECHNOLOGIES[i], regions, region_tech_growth_rates,
             base_capacities_after_stack(i - 1, regions, region_tech_growth_rates,
                                         base_capacities, years),
             years)

\* The call fn(params) on the inputs as they are, with its result, put on the log.
Logged(fn, params, result) ==
    calls' = Append(calls, [fn |-> fn, params |-> params, given |-> cfg, result |-> result])

\* The inputs of the sessions: the same installed capacities in every region.
SessionConfigs ==
    {c \in LcohConfigs :
        \A r, q \in RegionSet(c.regions) : c.base_capacities[r] = c.base_capacities[q]}

InitSession ==
    /\ cfg \in SessionConfigs
    /\ stack_data = NoCall
    /\ bop_epc_data = NoCall
    /\ lcoh = NoCall
    /\ inv = NoCall
    /\ RestIdle

SessionCapacityGrowth ==
    /\ Len(calls) < MaxCalls
    /\ growth' = [status |-> "ok",
                  technology |-> "western_pem",
                  data |-> calculate_regional_capacity_growth("western_pem", cfg.regions,
                               cfg.region_tech_growth_rates, cfg.base_capacities,
                               cfg.years, cfg.base_year)]
    /\ Logged("calculate_regional_capacity_growth", <<"western_pem">>, growth')
    /\ cfg' = [cfg EXCEPT !.base_capacities =
                  base_capacities_after_growth("western_pem", cfg.regions,
                      cfg.region_tech_growth_rates, cfg.base_capacities, cfg.years)]
    /\ UNCHANGED <<stack_data, bop_epc_data, lcoh, inv, partial_call, sensitivity, alpha>>
    /\ UNCHANGED more

SessionStackData ==
    /\ Len(calls) < MaxCalls
    /\ stack_data' = generate_regional_stack_data(cfg.regions, cfg.stack_costs_0,
                         cfg.base_capacities, cfg.region_tech_growth_rates,
                         cfg.stack_alphas, cfg.years, cfg.base_year)
    /\ Logged("generate_regional_stack_data", <<>>, stack_data')
    /\ cfg' = [cfg EXCEPT !.base_capacities =
                  base_capacities_after_stack(Len(TECHNOLOGIES), cfg.regions,
                      cfg.region_tech_growth_rates, cfg.base_capacities, cfg.years)]
    /\ UNCHANGED <<bop_epc_data, lcoh, inv, partial_call, sensitivity, growth, alpha>>
    /\ UNCHANGED more

SessionBopEpcData ==
    /\ Len(calls) < MaxCalls
    /\ bop_epc_data' = generate_regional_bop_epc_data(cfg.regions, cfg.bop_costs_0_pem,
                           cfg.bop_costs_0_alk, cfg.base_capacities,
                           cfg.region_tech_growth_rates, cfg.bop_alphas_pem,
                           cfg.bop_alphas_alk, cfg.years, cfg.base_year)
    /\ Logged("generate_regional_bop_epc_data", <<>>, bop_epc_data')
    /\ UNCHANGED <<cfg, stack_data, lcoh, inv, partial_call, sensitivity, growth, alpha>>
    /\ UNCHANGED more

\* The arguments of the calculate_lcoh call of a session.
SessionLcohArgs ==
    [tech_type |-> [str |-> "western_pem"], region |-> "usa", wacc |-> RFrac(2, 25),
     fom |-> RInt(50), utilization_rate |-> RFrac(1, 2), electricity_cost |-> RFrac(1, 20),
     electrolyzer_efficiency |-> RInt(55), learning_model |-> "shared",
     bop_epc_model |-> "local", year_index |-> None, fom_percentage |-> None]

SessionLcoh ==
    /\ Len(calls) < MaxCalls
    /\ StackOk
    /\ BopOk
    /\ lcoh' = calculate_lcoh(stack_data.data, bop_epc_data.data, SessionLcohArgs)
    /\ Logged("calculate_lcoh", SessionLcohArgs, lcoh')
    /\ UNCHANGED <<cfg, stack_data, bop_epc_data, inv, partial_call, sensitivity, growth, alpha>>
    /\ UNCHANGED more

\* The arguments of the generate_lcoh_sensitivity call of a session.
SessionSensitivityArgs ==
    [region |-> "china", base_wacc |-> RFrac(2, 25), base_fom |-> RInt(50),
     base_utilization_rate |-> RFrac(1, 2), base_electricity_cost |-> RFrac(1, 20),
     base_electrolyzer_efficiency |-> RInt(55),
     target_year |-> cfg.base_year + cfg.years, base_year |-> cfg.base_year,
     wacc_range |-> <<RFrac(1, 100), RFrac(15, 100)>>,
     utilization_range |-> <<RFrac(1, 5), RInt(1)>>,
     electricity_range |-> <<RFrac(1, 100), RFrac(15, 100)>>,
     efficiency_range |-> <<RInt(40), RInt(70)>>,
     stack_model |-> "second_layer", bop_epc_model |-> "local",
     compare_with_current |-> FALSE, fom_percentage |-> None]

SessionSensitivity ==
    /\ Len(calls) < MaxCalls
    /\ StackOk
    /\ BopOk
    /\ sensitivity' = [args |-> SessionSensitivityArgs] @@
                      generate_lcoh_sensitivity(stack_data.data, bop_epc_data.data,
                                                SessionSensitivityArgs)
    /\ Logged("generate_lcoh_sensitivity", SessionSensitivityArgs, sensitivity')
    /\ UNCHANGED <<cfg, stack_data, bop_epc_data, lcoh, inv, partial_call, growth, alpha>>
    /\ UNCHANGED more

\* The row of the stack target-cost table asked for in a session: western_alk at
\* a quarter of its base cost, shared pool.
session_target_row(required_capacity, c) ==
    target_cost_row(required_capacity,
        calculate_learning_investment_stack("western_alk",
            RMul(c.stack_costs_0["western_alk"], RFrac(1, 4)), required_capacity,
            c.stack_costs_0, technologies_capacities_0(c.regions, c.base_capacities),
            c.stack_alphas, "shared", RInt(0), RInt(0)))

SessionTargetCost ==
    /\ Len(calls) < MaxCalls
    /\ inv' = session_target_row(
                  calculate_required_capacity_stack("western_alk",
                      RMul(cfg.stack_costs_0["western_alk"], RFrac(1, 4)),
                      cfg.stack_costs_0,
                      technologies_capacities_0(cfg.regions, cfg.base_capacities),
                      cfg.stack_alphas, "shared", RInt(0), RInt(0)),
                  cfg)
    /\ Logged("generate_target_cost_data_stack", <<"western_alk">>, inv')
    /\ UNCHANGED <<cfg, stack_data, bop_epc_data, lcoh, partial_call, sensitivity, growth, alpha>>
    /\ UNCHANGED more

NextSession ==
    \/ SessionCapacityGrowth
    \/ SessionStackData
    \/ SessionBopEpcData
    \/ SessionLcoh
    \/ SessionSensitivity
    \/ SessionTargetCost

SpecSession == InitSession /\ [][NextSession]_vars

(***************************************************************************)
(* The annuity runs: calculate_crf for a WACC and a lifetime, and          *)
(* calculate_lcoh at a WACC on the projections of a configuration.         *)
(***************************************************************************)
\* Longest project lifetime explored, in years.
MaxLifetime == 25

\* The WACC values explored: 0, 1% to 15% (the range of the dashboard), 50%, 100%.
Waccs == {RFrac(k, 100) : k \in 0..15} \cup {RFrac(1, 2), RInt(1)}

InitCrf ==
    /\ cfg = CHOOSE c \in LcohConfigs : TRUE
    /\ stack_data = NoCall
    /\ bop_epc_data = NoCall
    /\ lcoh = NoCall
    /\ inv = NoCall
    /\ RestIdle

\* What a calculate_crf call yields: the factor, or the exception raised.
crf_outcome(value) ==
    IF IsErr(value) THEN [status |-> "ZeroDivisionError", data |-> <<>>]
    ELSE [status |-> "ok", data |-> value]

\* A call of calculate_crf.
CalculateCrf ==
    /\ crf = NoCall
    /\ \E wacc \in Waccs, lifetime \in 1..MaxLifetime :
           crf' = [wacc |-> wacc, lifetime |-> lifetime] @@
                  crf_outcome(calculate_crf(wacc, lifetime))
    /\ UNCHANGED <<cfg, stack_data, bop_epc_data, lcoh, inv>>
    /\ UNCHANGED <<partial_call, sensitivity, growth, alpha, calls>>
    /\ UNCHANGED <<projections, investments, target_table>>

\* The arguments of the calculate_lcoh calls of the annuity runs.
LcohArgsAtWacc ==
    [tech_type : {[str |-> "western_pem"]},
     region : {"usa"},
     wacc : {RFrac(8, 100), RFrac(15, 100), RInt(1)},
     fom : {RInt(50)},
     utilization_rate : {RFrac(1, 2), RInt(1)},
     electricity_cost : {RFrac(1, 20)},
     electrolyzer_efficiency : {RInt(55)},
     learning_model : {"shared"},
     bop_epc_model : {"local"},
     year_index : {None},
     fom_percentage : {None}]

\* One call of calculate_lcoh at a WACC.
CalculateLcohAtWacc ==
    /\ StackOk
    /\ BopOk
    /\ lcoh = NoCall
    /\ \E a \in LcohArgsAtWacc : lcoh' = calculate_lcoh(stack_data.data, bop_epc_data.data, a)
    /\ UNCHANGED <<cfg, stack_data, bop_epc_data, inv>>
    /\ UNCHANGED rest

NextCrf ==
    \/ CalculateCrf
    \/ GenerateRegionalStackData
    \/ GenerateRegionalBopEpcData
    \/ CalculateLcohAtWacc

SpecCrf == InitCrf /\ [][NextCrf]_vars

(***************************************************************************)
(* generate_lcoh_projections                                               *)
(***************************************************************************)
\* The technology of a region: selected_tech.get(region, default) for a dict,
\* selected_tech if it is truthy, else chinese_alk for china and western_pem.
selected_tech_of(selected_tech, region) ==
    IF selected_tech = None THEN region_tech_type(region)
    ELSE IF "dict" \in DOMAIN selected_tech[1]
    THEN IF region \in DOMAIN selected_tech[1].dict
         THEN selected_tech[1].dict[region]
         ELSE region_tech_type(region)
    ELSE IF selected_tech[1].str = "" THEN region_tech_type(region)
    ELSE selected_tech[1].str

\* tech_base = 'alk' if 'alk' in str(tech_type).lower() else 'pem'
projection_tech_base(tech_type) == IF IsPem(tech_type) THEN "pem" ELSE "alk"

\* Variant of projection_args that evaluates every row at the last year.
projection_args_last_year(p, region, idx) ==
    [tech_type |-> [str |-> selected_tech_of(p.selected_tech, region)],
     region |-> region,
     wacc |-> p.wacc_values[region],
     fom |-> RInt(0),
     utilization_rate |-> p.utilization_rates[region],
     electricity_cost |-> p.electricity_costs[region],
     electrolyzer_efficiency |-> p.electrolyzer_efficiencies[region],
     learning_model |-> p.learning_model,
     bop_epc_model |-> p.bop_epc_model,
     year_index |-> None,
     fom_percentage |-> IF p.fom_percentages # None
                        THEN Some(p.fom_percentages[1][region]) ELSE None]

\* The arguments of the calculate_lcoh call of row idx of a region.
projection_args(p, region, idx) ==
    [tech_type |-> [str |-> selected_tech_of(p.selected_tech, region)],
     region |-> region,
     wacc |-> p.wacc_values[region],
     fom |-> RInt(0),
     utilization_rate |-> p.utilization_rates[region],
     electricity_cost |-> p.electricity_costs[region],
     electrolyzer_efficiency |-> p.electrolyzer_efficiencies[region],
     learning_model |-> p.learning_model,
     bop_epc_model |-> p.bop_epc_model,
     year_index |-> Some(idx),
     fom_percentage |-> IF p.fom_percentages # None
                        THEN Some(p.fom_percentages[1][region]) ELSE None]

\* year_lcoh for idx in range(len(df))
year_lcohs(stack, bop, p, region) ==
    [i \in 1..(p.years + 1) |-> calculate_lcoh(stack, bop, projection_args(p, region, i - 1)).data]

\* stack_data[learning_model][tech_type]['cost'] + bop_epc_data[bop_epc_model][bop_epc_key]['cost']
total_capex_column(stack, bop, p, region) ==
    [i \in 1..(p.years + 1) |->
        RAdd(stack[p.learning_model][selected_tech_of(p.selected_tech, region)].cost[i],
             bop[p.bop_epc_model][<<region, projection_tech_base(
                                      selected_tech_of(p.selected_tech, region))>>].cost[i])]

\* The DataFrame of one region.
projection_frame(p, rows, total_capex) ==
    ("Year" :> [i \in 1..(p.years + 1) |-> p.base_year + i - 1])
    @@ ("Total CAPEX ($/kW)" :> total_capex)
    @@ ("LCOH ($/kg)" :> [i \in DOMAIN rows |-> rows[i].lcoh])
    @@ ("CAPEX Component ($/kg)" :> [i \in DOMAIN rows |-> rows[i].capital_component])
    @@ ("FOM Component ($/kg)" :> [i \in DOMAIN rows |-> rows[i].fom_component])
    @@ ("Electricity Component ($/kg)" :> [i \in DOMAIN rows |-> rows[i].electricity_component])

\* The exception the loop of one region raises, if any: calculate_crf divides by
\* zero before the cost is read, .iloc raises past the end of the cost column.
projection_region_status(stack, p, region) ==
    IF IsErr(calculate_crf(p.wacc_values[region], lifetime_default))
    THEN "ZeroDivisionError"
    ELSE IF iloc_out_of_range(
                Len(stack[p.learning_model][selected_tech_of(p.selected_tech, region)].cost),
                p.years)
    THEN "IndexError"
    ELSE "ok"

RECURSIVE projection_status(_, _, _)
\* The first exception in the order of the region loop.
projection_status(stack, p, i) ==
    IF i > Len(p.regions) THEN "ok"
    ELSE IF projection_region_status(stack, p, p.regions[i]) # "ok"
    THEN projection_region_status(stack, p, p.regions[i])
    ELSE projection_status(stack, p, i + 1)

projection_outcome(status, frames) ==
    IF status # "ok" THEN [status |-> status, data |-> <<>>]
    ELSE [status |-> "ok", data |-> frames]

generate_lcoh_projections(stack, bop, p) ==
    projection_outcome(projection_status(stack, p, 1),
        IF projection_status(stack, p, 1) # "ok" THEN <<>>
        ELSE [region \in RegionSet(p.regions) |->
                 projection_frame(p, year_lcohs(stack, bop, p, region),
                                  total_capex_column(stack, bop, p, region))])

\* The calls the session makes: one value per region for every parameter.
ProjectionArgs ==
    [regions : {cfg.regions, <<"china">>},
     wacc_values : {[r \in RegionSet(cfg.regions) |-> IF r = "china" THEN RFrac(1, 20) ELSE w] :
                        w \in {RFrac(2, 25), RZero}},
     fom_values : {[r \in RegionSet(cfg.regions) |-> RInt(f)] : f \in {0, 50}},
     utilization_rates : {[r \in RegionSet(cfg.regions) |->
                              IF r = "china" THEN RFrac(3, 5) ELSE RFrac(1, 2)]},
     electricity_costs : {[r \in RegionSet(cfg.regions) |->
                              IF r = "china" THEN RFrac(3, 100) ELSE RFrac(1, 20)]},
     electrolyzer_efficiencies : {[r \in RegionSet(cfg.regions) |->
                                      IF r = "china" THEN RInt(52) ELSE RInt(55)]},
     years : {cfg.years, cfg.years + 1},
     base_year : {cfg.base_year},
     learning_model : StackModels,
     selected_tech : {None, Some([str |-> ""]), Some([str |-> "western_alk"]),
                      Some([dict |-> [r \in {"usa"} |-> "chinese_pem"]]),
                      Some([dict |-> [r \in RegionSet(cfg.regions) |-> "western_alk"]])},
     bop_epc_model : BopModels,
     fom_percentages : {None, Some([r \in RegionSet(cfg.regions) |-> RInt(2)])}]

GenerateLcohProjections ==
    /\ StackOk
    /\ BopOk
    /\ projections = NoCall
    /\ sensitivity = NoCall
    /\ \E p \in ProjectionArgs :
           projections' = [args |-> p] @@
                          generate_lcoh_projections(stack_data.data, bop_epc_data.data, p)
    /\ UNCHANGED <<cfg, stack_data, bop_epc_data, lcoh, inv>>
    /\ UNCHANGED <<partial_call, sensitivity, growth, alpha, calls>>
    /\ UNCHANGED <<crf, investments, target_table>>

\* The sensitivity calls of the session, with every keyword of the signature:
\* learning_model and stack_model are separate parameters.
SensitivityArgsByModel ==
    [region : RegionSet(cfg.regions),
     base_wacc : {RFrac(2, 25)},
     base_fom : {RInt(0), RInt(50)},
     base_utilization_rate : {RFrac(1, 2)},
     base_electricity_cost : {RFrac(1, 20)},
     base_electrolyzer_efficiency : {RInt(55)},
     target_year : {cfg.base_year + cfg.years},
     base_year : {cfg.base_year},
     wacc_range : {<<RFrac(1, 100), RFrac(15, 100)>>},
     utilization_range : {<<RFrac(1, 5), RInt(1)>>},
     electricity_range : {<<RFrac(1, 100), RFrac(15, 100)>>},
     efficiency_range : {<<RInt(40), RInt(70)>>},
     learning_model : StackModels,
     stack_model : StackModels,
     bop_epc_model : {"local"},
     compare_with_current : {FALSE},
     fom_percentage : {None, Some(RInt(2))}]

GenerateLcohSensitivityByModel ==
    /\ StackOk
    /\ BopOk
    /\ sensitivity = NoCall
    /\ projections = NoCall
    /\ \E s \in SensitivityArgsByModel :
           sensitivity' = [args |-> s] @@
                          generate_lcoh_sensitivity(stack_data.data, bop_epc_data.data, s)
    /\ UNCHANGED <<cfg, stack_data, bop_epc_data, lcoh, inv>>
    /\ UNCHANGED <<partial_call, growth, alpha, calls>>
    /\ UNCHANGED more

LcohProjectionConfigs ==
    {c \in LcohConfigs : \A r \in RegionSet(c.regions) :
        /\ c.base_capacities[r]["western_pem"] = 100
        /\ c.region_tech_growth_rates[r] = c.region_tech_growth_rates["usa"]}

InitProjections ==
    /\ cfg \in LcohProjectionConfigs
    /\ stack_data = NoCall
    /\ bop_epc_data = NoCall
    /\ lcoh = NoCall
    /\ inv = NoCall
    /\ RestIdle

NextProjections ==
    \/ GenerateRegionalStackData
    \/ GenerateRegionalBopEpcData
    \/ GenerateLcohProjections
    \/ GenerateLcohSensitivityByModel

SpecProjections == InitProjections /\ [][NextProjections]_vars

(***************************************************************************)
(* The inversion applied to the costs of the forward projection            *)
(***************************************************************************)
RoundTripConfigs ==
    {c \in Configs({<<"usa", "china">>}, CapacityProfiles,
                   {g \in GrowthProfiles : RLess(RZero, g["western_pem"])},
                   {RInt(-2), RInt(-1)}, {MaxYears}) : WellKeyed(c)}

InitRoundTrip ==
    /\ cfg \in RoundTripConfigs
    /\ stack_data = NoCall
    /\ bop_epc_data = NoCall
    /\ lcoh = NoCall
    /\ inv = NoCall
    /\ RestIdle

\* The pool capacity the forward stack cost formula of a topology uses at year_idx.
forward_pool_stack(learning_model, tech, year_idx) ==
    IF learning_model = "shared"
    THEN x_total(cfg.regions, cfg.base_capacities, cfg.region_tech_growth_rates,
                 cfg.years, cfg.base_year, year_idx)
    ELSE IF learning_model = "first_layer"
    THEN x_family(tech, cfg.regions, cfg.base_capacities, cfg.region_tech_growth_rates,
                  cfg.years, cfg.base_year, year_idx)
    ELSE tech_capacity(tech, cfg.regions, cfg.base_capacities, cfg.region_tech_growth_rates,
                       cfg.years, cfg.base_year, year_idx)

\* The pool capacity the forward BoP & EPC cost formula of a topology uses at year_idx.
forward_pool_bop_epc(learning_model, region, year_idx) ==
    IF learning_model = "local"
    THEN region_total_capacity(region, cfg.base_capacities,
                               cfg.region_tech_growth_rates, year_idx)
    ELSE total_global_capacity(cfg.regions, cfg.base_capacities,
                               cfg.region_tech_growth_rates, year_idx)

required_capacity_outcome(req_cap, call) ==
    (IF Bad(req_cap) /\ ~IsIrr(req_cap) THEN [status |-> Raised(req_cap), data |-> <<>>]
     ELSE [status |-> "ok", data |-> [required_capacity |-> req_cap]]) @@ call

\* calculate_required_capacity_stack for the cost the forward projection gives a
\* technology in a year after the base year, with the baseline offsets passed.
RequiredCapacityOfProjectedStackCost ==
    /\ StackOk
    /\ inv = NoCall
    /\ \E tech \in TechSet, learning_model \in StackModels, t \in 1..cfg.years :
          /\ ~IsIrr(calculate_required_capacity_stack(tech,
                        stack_data.data[learning_model][tech].cost[t + 1],
                        cfg.stack_costs_0,
                        technologies_capacities_0(cfg.regions, cfg.base_capacities),
                        cfg.stack_alphas, learning_model,
                        RInt(additional_pem_capacity), RInt(additional_alk_capacity)))
          /\ inv' = required_capacity_outcome(
                        calculate_required_capacity_stack(tech,
                            stack_data.data[learning_model][tech].cost[t + 1],
                            cfg.stack_costs_0,
                            technologies_capacities_0(cfg.regions, cfg.base_capacities),
                            cfg.stack_alphas, learning_model,
                            RInt(additional_pem_capacity), RInt(additional_alk_capacity)),
                        [kind |-> "stack", tech |-> tech, learning_model |-> learning_model,
                         year_idx |-> t,
                         target_cost |-> stack_data.data[learning_model][tech].cost[t + 1],
                         c_0 |-> cfg.stack_costs_0[tech],
                         pool |-> forward_pool_stack(learning_model, tech, t)])
    /\ UNCHANGED <<cfg, stack_data, bop_epc_data, lcoh>>
    /\ UNCHANGED rest

\* calculate_required_capacity_bop_epc for the cost the forward projection gives a
\* region and category in a year after the base year.
RequiredCapacityOfProjectedBopEpcCost ==
    /\ BopOk
    /\ inv = NoCall
    /\ \E region \in RegionSet(cfg.regions), tech_type \in BopCategories, learning_model \in BopModels, t \in 1..cfg.years :
          /\ ~IsIrr(calculate_required_capacity_bop_epc(region, tech_type,
                        bop_epc_data.data[learning_model][<<region, tech_type>>].cost[t + 1],
                        bop_epc_costs_0, cfg.base_capacities, cfg.bop_alphas_pem,
                        learning_model, cfg.regions))
          /\ inv' = required_capacity_outcome(
                        calculate_required_capacity_bop_epc(region, tech_type,
                            bop_epc_data.data[learning_model][<<region, tech_type>>].cost[t + 1],
                            bop_epc_costs_0, cfg.base_capacities, cfg.bop_alphas_pem,
                            learning_model, cfg.regions),
                        [kind |-> "bop_epc", region |-> region, tech_type |-> tech_type,
                         learning_model |-> learning_model, year_idx |-> t,
                         target_cost |->
                             bop_epc_data.data[learning_model][<<region, tech_type>>].cost[t + 1],
                         c_0 |-> bop_epc_costs_0[<<region, tech_type>>],
                         pool |-> forward_pool_bop_epc(learning_model, region, t)])
    /\ UNCHANGED <<cfg, stack_data, bop_epc_data, lcoh>>
    /\ UNCHANGED rest

NextRoundTrip ==
    \/ GenerateRegionalStackData
    \/ GenerateRegionalBopEpcData
    \/ RequiredCapacityOfProjectedStackCost
    \/ RequiredCapacityOfProjectedBopEpcCost

SpecRoundTrip == InitRoundTrip /\ [][NextRoundTrip]_vars

(***************************************************************************)
(* generate_target_cost_data_stack and generate_target_cost_data_bop_epc   *)
(***************************************************************************)
MaxCostSteps == 5

\* Variant of target_costs: the targets rise from min_cost to c_0.
target_costs_ascending(c_0, min_cost_factor, cost_steps) ==
    [i \in 1..cost_steps |->
        IF cost_steps = 1 THEN RMul(c_0, min_cost_factor)
        ELSE linspace(RMul(c_0, min_cost_factor), c_0, cost_steps, i - 1)]

\* target_costs = np.linspace(c_0, c_0 * min_cost_factor, cost_steps)
target_costs(c_0, min_cost_factor, cost_steps) ==
    [i \in 1..cost_steps |->
        IF cost_steps = 1 THEN c_0
        ELSE linspace(c_0, RMul(c_0, min_cost_factor), cost_steps, i - 1)]

RECURSIVE rows_raised(_, _, _)
\* The first exception of the loop over the targets, "irrational" where the
\* required capacity of a row is no rational number.
rows_raised(required_capacities, learning_investments, i) ==
    IF i > Len(required_capacities) THEN "ok"
    ELSE IF IsIrr(required_capacities[i]) THEN "irrational"
    ELSE IF Bad(required_capacities[i]) THEN Raised(required_capacities[i])
    ELSE IF Bad(learning_investments[i]) THEN Raised(learning_investments[i])
    ELSE rows_raised(required_capacities, learning_investments, i + 1)

\* The DataFrame of a target-cost table.
target_cost_frame(c_0, targets, required_capacities, learning_investments) ==
    IF rows_raised(required_capacities, learning_investments, 1) # "ok"
    THEN [status |-> rows_raised(required_capacities, learning_investments, 1),
          data |-> <<>>]
    ELSE [status |-> "ok",
          data |-> [target_cost |-> targets,
                    cost_reduction_pct |->
                        [i \in DOMAIN targets |->
                            RMul(RSub(ROne, RDiv(targets[i], c_0)), RInt(100))],
                    required_capacity |-> required_capacities,
                    learning_investment |-> learning_investments]]

stack_frame_of_capacities(tech, targets, required_capacities, costs_0, capacities_0, alphas, learning_model, pem_additional_capacity, alk_additional_capacity) ==
    target_cost_frame(costs_0[tech], targets, required_capacities,
        [i \in DOMAIN targets |->
            calculate_learning_investment_stack(tech, targets[i], required_capacities[i],
                costs_0, capacities_0, alphas, learning_model,
                pem_additional_capacity, alk_additional_capacity)])

stack_frame_of_targets(tech, targets, costs_0, capacities_0, alphas, learning_model, pem_additional_capacity, alk_additional_capacity) ==
    stack_frame_of_capacities(tech, targets,
        [i \in DOMAIN targets |->
            calculate_required_capacity_stack(tech, targets[i], costs_0, capacities_0,
                alphas, learning_model, pem_additional_capacity, alk_additional_capacity)],
        costs_0, capacities_0, alphas, learning_model,
        pem_additional_capacity, alk_additional_capacity)

generate_target_cost_data_stack(tech, costs_0, capacities_0, alphas, cost_steps, min_cost_factor, learning_model, pem_additional_capacity, alk_additional_capacity) ==
    stack_frame_of_targets(tech, target_costs(costs_0[tech], min_cost_factor, cost_steps),
        costs_0, capacities_0, alphas, learning_model,
        pem_additional_capacity, alk_additional_capacity)

bop_epc_frame_of_capacities(region, tech_type, targets, required_capacities, costs_0, region_capacities, alphas, regions, learning_model) ==
    target_cost_frame(costs_0[<<region, tech_type>>], targets, required_capacities,
        [i \in DOMAIN targets |->
            calculate_learning_investment_bop_epc(region, tech_type, targets[i],
                required_capacities[i], costs_0, region_capacities, alphas,
                learning_model, regions)])

bop_epc_frame_of_targets(region, tech_type, targets, costs_0, region_capacities, alphas, regions, learning_model) ==
    bop_epc_frame_of_capacities(region, tech_type, targets,
        [i \in DOMAIN targets |->
            calculate_required_capacity_bop_epc(region, tech_type, targets[i], costs_0,
                region_capacities, alphas, learning_model, regions)],
        costs_0, region_capacities, alphas, regions, learning_model)

generate_target_cost_data_bop_epc(region, tech_type, costs_0, region_capacities, alphas, regions, cost_steps, min_cost_factor, learning_model) ==
    bop_epc_frame_of_targets(region, tech_type,
        target_costs(costs_0[<<region, tech_type>>], min_cost_factor, cost_steps),
        costs_0, region_capacities, alphas, regions, learning_model)

\* The learning exponents of the tables explored.
TableAlphas == {RFrac(-1, 2), RFrac(-1, 3), RInt(-2), RInt(-1), RInt(0)}

\* cost_steps and min_cost_factor of the tables explored.
TableGrids ==
    {[cost_steps |-> 1, min_cost_factor |-> RFrac(1, 2)],
     [cost_steps |-> 2, min_cost_factor |-> RFrac(1, 4)],
     [cost_steps |-> 3, min_cost_factor |-> RFrac(1, 49)],
     [cost_steps |-> 3, min_cost_factor |-> RFrac(1, 2)],
     [cost_steps |-> MaxCostSteps, min_cost_factor |-> RFrac(1, 10)]}

TableConfigs ==
    {c \in Configs({<<"usa", "china">>}, CapacityProfiles,
                   {g \in GrowthProfiles : g["western_pem"] = RZero},
                   {RInt(-1)}, {0}) : WellKeyed(c)}

InitTargetTable ==
    /\ cfg \in TableConfigs
    /\ stack_data = NoCall
    /\ bop_epc_data = NoCall
    /\ lcoh = NoCall
    /\ inv = NoCall
    /\ RestIdle

GenerateTargetCostDataStack ==
    /\ target_table = NoCall
    /\ \E tech \in TechSet, learning_model \in StackModels, a \in TableAlphas, grid \in TableGrids, add \in AdditionalCapacities :
          /\ target_table' =
                 [kind |-> "stack", tech |-> tech, learning_model |-> learning_model,
                  alpha |-> a, cost_steps |-> grid.cost_steps,
                  min_cost_factor |-> grid.min_cost_factor, additional |-> add,
                  c_0 |-> cfg.stack_costs_0[tech],
                  x_0 |-> stack_x_0(tech,
                              technologies_capacities_0(cfg.regions, cfg.base_capacities),
                              learning_model, add.pem, add.alk)]
                 @@ generate_target_cost_data_stack(tech, cfg.stack_costs_0,
                        technologies_capacities_0(cfg.regions, cfg.base_capacities),
                        [t \in TechSet |-> a], grid.cost_steps, grid.min_cost_factor,
                        learning_model, add.pem, add.alk)
          /\ target_table'.status # "irrational"
    /\ UNCHANGED <<cfg, stack_data, bop_epc_data, lcoh, inv>>
    /\ UNCHANGED <<partial_call, sensitivity, growth, alpha, calls>>
    /\ UNCHANGED <<crf, projections, investments>>

GenerateTargetCostDataBopEpc ==
    /\ target_table = NoCall
    /\ \E region \in RegionSet(cfg.regions), tech_type \in BopCategories, learning_model \in BopModels, a \in TableAlphas, grid \in TableGrids :
          /\ target_table' =
                 [kind |-> "bop_epc", region |-> region, tech_type |-> tech_type,
                  learning_model |-> learning_model, alpha |-> a,
                  cost_steps |-> grid.cost_steps,
                  min_cost_factor |-> grid.min_cost_factor,
                  c_0 |-> bop_epc_costs_0[<<region, tech_type>>],
                  x_0 |-> bop_epc_x_0(region, cfg.base_capacities, learning_model,
                                      cfg.regions)]
                 @@ generate_target_cost_data_bop_epc(region, tech_type, bop_epc_costs_0,
                        cfg.base_capacities, [r \in RegionSet(cfg.regions) |-> a],
                        cfg.regions, grid.cost_steps, grid.min_cost_factor, learning_model)
          /\ target_table'.status # "irrational"
    /\ UNCHANGED <<cfg, stack_data, bop_epc_data, lcoh, inv>>
    /\ UNCHANGED <<partial_call, sensitivity, growth, alpha, calls>>
    /\ UNCHANGED <<crf, projections, investments>>

NextTargetTable ==
    \/ GenerateTargetCostDataStack
    \/ GenerateTargetCostDataBopEpc

SpecTargetTable == InitTargetTable /\ [][NextTargetTable]_vars

(***************************************************************************)
(* learning_investment_utils.py: the learning investment of the stack      *)
(***************************************************************************)
\* learning_inv = (1 / (1 + alpha)) * (c_y * capacity_y - c_0 * x_0)
learning_inv(a, c_y, capacity_y, c_0, x_0) ==
    RMul(RDiv(ROne, RAdd(ROne, a)), RSub(RMul(c_y, capacity_y), RMul(c_0, x_0)))

\* sum([stack_data[model][t].iloc[idx]['capacity'] for t in techs])
sum_capacity_columns(stack, model, techs, idx) ==
    RSum([i \in 1..Len(techs) |-> stack[model][techs[i]].capacity[idx + 1]])

\* related_techs of calculate_stack_learning_investment_first_layer
related_techs(tech) ==
    IF IsPem(tech) THEN <<"western_pem", "chinese_pem">> ELSE <<"western_alk", "chinese_alk">>

\* calculate_stack_learning_investment_shared
calculate_stack_learning_investment_shared(tech, costs_0, capacities_0, alphas, stack) ==
    [year |-> stack["shared"][tech].year,
     learning_investment |->
         [t \in DOMAIN stack["shared"][tech].cost |->
             IF t = 1 THEN RZero
             ELSE learning_inv(alphas[tech], stack["shared"][tech].cost[t],
                               sum_capacity_columns(stack, "shared", TECHNOLOGIES, t - 1),
                               costs_0[tech], sum_capacities_0(capacities_0))]]

\* calculate_stack_learning_investment_first_layer
calculate_stack_learning_investment_first_layer(tech, costs_0, capacities_0, alphas, stack) ==
    [year |-> stack["first_layer"][tech].year,
     learning_investment |->
         [t \in DOMAIN stack["first_layer"][tech].cost |->
             IF t = 1 THEN RZero
             ELSE learning_inv(alphas[tech], stack["first_layer"][tech].cost[t],
                               sum_capacity_columns(stack, "first_layer",
                                                    related_techs(tech), t - 1),
                               costs_0[tech],
                               RAdd(capacities_0[related_techs(tech)[1]],
                                    capacities_0[related_techs(tech)[2]]))]]

\* calculate_stack_learning_investment_second_layer
calculate_stack_learning_investment_second_layer(tech, costs_0, capacities_0, alphas, stack) ==
    [year |-> stack["second_layer"][tech].year,
     learning_investment |->
         [t \in DOMAIN stack["second_layer"][tech].cost |->
             IF t = 1 THEN RZero
             ELSE learning_inv(alphas[tech], stack["second_layer"][tech].cost[t],
                               stack["second_layer"][tech].capacity[t],
                               costs_0[tech], capacities_0[tech])]]

\* The three tables of every technology of the list.
stack_learning_investments(technologies, costs_0, capacities_0, alphas, stack) ==
    [m \in StackModels |-> [tech \in RegionSet(technologies) |->
        IF m = "shared"
        THEN calculate_stack_learning_investment_shared(tech, costs_0, capacities_0,
                                                        alphas, stack)
        ELSE IF m = "first_layer"
        THEN calculate_stack_learning_investment_first_layer(tech, costs_0, capacities_0,
                                                             alphas, stack)
        ELSE calculate_stack_learning_investment_second_layer(tech, costs_0, capacities_0,
                                                              alphas, stack)]]

\* The exception of the call: 1 / (1 + alpha) divides by zero for alpha = -1 in the
\* first year after the base year.
investments_outcome(tables) ==
    IF \E m \in DOMAIN tables : \E tech \in DOMAIN tables[m] :
           \E t \in DOMAIN tables[m][tech].learning_investment :
               IsErr(tables[m][tech].learning_investment[t])
    THEN [status |-> "ZeroDivisionError", data |-> <<>>]
    ELSE [status |-> "ok", data |-> tables]

generate_stack_learning_investments(technologies, costs_0, capacities_0, alphas, stack) ==
    investments_outcome(stack_learning_investments(technologies, costs_0, capacities_0,
                                                   alphas, stack))

\* The call of the dashboard: capacities_0 is each technology's base capacity
\* summed over the regions.
GenerateStackLearningInvestments ==
    /\ StackOk
    /\ investments = NoCall
    /\ investments' = generate_stack_learning_investments(TECHNOLOGIES, cfg.stack_costs_0,
                          technologies_capacities_0(cfg.regions, cfg.base_capacities),
                          cfg.stack_alphas, stack_data.data)
    /\ UNCHANGED <<cfg, stack_data, bop_epc_data, lcoh, inv>>
    /\ UNCHANGED <<partial_call, sensitivity, growth, alpha, calls>>
    /\ UNCHANGED <<crf, projections, target_table>>

InitInvestments ==
    /\ cfg \in ProjectionConfigs
    /\ stack_data = NoCall
    /\ bop_epc_data = NoCall
    /\ lcoh = NoCall
    /\ inv = NoCall
    /\ RestIdle

NextInvestments ==
    \/ GenerateRegionalStackData
    \/ GenerateStackLearningInvestments

SpecInvestments == InitInvestments /\ [][NextInvestments]_vars

(***************************************************************************)
(* Properties of the projections                                           *)
(***************************************************************************)
\* Every (region, technology) growth rate of the configuration is >= 0.
GrowthNonNegative ==
    \A r \in RegionSet(cfg.regions) : \A tech \in TechSet :
        RLeq(RZero, cfg.region_tech_growth_rates[r][tech])

\* Every (region, technology) growth rate of the configuration is 0.
GrowthZero ==
    \A r \in RegionSet(cfg.regions) : \A tech \in TechSet :
        REq(RZero, cfg.region_tech_growth_rates[r][tech])

StackAlphasNegative == \A tech \in TechSet : RLess(cfg.stack_alphas[tech], RZero)

BopAlphasNegative ==
    \A r \in RegionSet(cfg.regions) :
        RLess(cfg.bop_alphas_pem[r], RZero) /\ RLess(cfg.bop_alphas_alk[r], RZero)

\* The base cost of a BoP/EPC entry.
BopCost0(k) == IF k[2] = "pem" THEN cfg.bop_costs_0_pem[k[1]] ELSE cfg.bop_costs_0_alk[k[1]]

\* C1: in every returned table, of each stack technology under shared, first_layer
\* and second_layer and of each region x category under local and global, the cost
\* of year index 0 equals the declared base cost C0.
C1_Year0CostIsBaseCost ==
    /\ StackOk =>
          \A m \in StackModels : \A tech \in TechSet :
              REq(stack_data.data[m][tech].cost[1], cfg.stack_costs_0[tech])
    /\ BopOk =>
          \A m \in BopModels : \A k \in BopKeys(cfg.regions) :
              REq(bop_epc_data.data[m][k].cost[1], BopCost0(k))

\* Both tables are returned over a horizon of at least a year, and a cost of a later
\* year differs from its C0 in the stack table and in the BoP/EPC table.
C1_Witness ==
    /\ StackOk
    /\ BopOk
    /\ cfg.years >= 1
    /\ \E m \in StackModels : \E tech \in TechSet :
          ~REq(stack_data.data[m][tech].cost[2], cfg.stack_costs_0[tech])
    /\ \E m \in BopModels : \E k \in BopKeys(cfg.regions) :
          ~REq(bop_epc_data.data[m][k].cost[2], BopCost0(k))

\* C2: with all growth rates >= 0 and all exponents < 0, the cost of every BoP/EPC
\* entry (each region, PEM and ALK) in a returned table is non-increasing from each
\* year to the next, from year 0 on, under local and global, for any non-negative
\* base capacities.
C2_BopCostNonIncreasing ==
    (BopOk /\ GrowthNonNegative /\ BopAlphasNegative) =>
        \A m \in BopModels : \A k \in BopKeys(cfg.regions) : \A t \in 1..cfg.years :
            RLeq(bop_epc_data.data[m][k].cost[t + 1], bop_epc_data.data[m][k].cost[t])

\* C3: with all growth rates >= 0 and all exponents < 0, the cost of every stack
\* technology is non-increasing from each year to the next, from year 0 on, under
\* shared, first_layer and second_layer.
C3_StackCostNonIncreasing ==
    (StackOk /\ GrowthNonNegative /\ StackAlphasNegative) =>
        \A m \in StackModels : \A tech \in TechSet : \A t \in 1..cfg.years :
            RLeq(stack_data.data[m][tech].cost[t + 1], stack_data.data[m][tech].cost[t])

\* A stack table under non-negative growth and negative exponents in which a cost
\* falls strictly from one year to the next.
C3_Witness ==
    /\ StackOk
    /\ GrowthNonNegative
    /\ StackAlphasNegative
    /\ cfg.years >= 2
    /\ \E m \in StackModels : \E tech \in TechSet :
          RLess(stack_data.data[m][tech].cost[3], stack_data.data[m][tech].cost[2])

\* C4: with all growth rates >= 0 (and base capacities >= 0) every capacity series
\* is non-decreasing from year t to t + 1: a technology's capacity per region, its
\* total over the regions, and each region's PEM and ALK capacity of the BoP/EPC
\* tables.
C4_CapacityNonDecreasing ==
    GrowthNonNegative =>
        /\ StackOk =>
              \A tech \in TechSet :
                  LET d == calculate_regional_capacity_growth(tech, cfg.regions,
                               cfg.region_tech_growth_rates, cfg.base_capacities,
                               cfg.years, cfg.base_year)
                  IN  \A t \in 1..cfg.years :
                          /\ RLeq(d.capacity[t], d.capacity[t + 1])
                          /\ \A r \in RegionSet(cfg.regions) :
                                RLeq(d.capacity_by_region[r][t], d.capacity_by_region[r][t + 1])
        /\ BopOk =>
              \A m \in BopModels : \A k \in BopKeys(cfg.regions) : \A t \in 1..cfg.years :
                  RLeq(bop_epc_data.data[m][k].capacity[t],
                       bop_epc_data.data[m][k].capacity[t + 1])

\* Both calls have returned under non-negative growth and a capacity has grown
\* strictly.
C4_Witness ==
    /\ GrowthNonNegative
    /\ StackOk
    /\ BopOk
    /\ cfg.years >= 1
    /\ \E m \in BopModels : \E k \in BopKeys(cfg.regions) :
          RLess(bop_epc_data.data[m][k].capacity[1], bop_epc_data.data[m][k].capacity[2])

\* The four second_layer pool capacities of year_idx, summed.
SecondLayerPoolSum(year_idx) ==
    RSum([i \in 1..Len(TECHNOLOGIES) |->
            tech_capacity(TECHNOLOGIES[i], cfg.regions, cfg.base_capacities,
                          cfg.region_tech_growth_rates, cfg.years, cfg.base_year, year_idx)])

\* The four second_layer pool base capacities, summed.
SecondLayerBaseSum ==
    RSum([i \in 1..Len(TECHNOLOGIES) |->
            x_0_tech(TECHNOLOGIES[i], cfg.regions, cfg.base_capacities)])

\* C9: topology conservation: at every year t in [0, T] the four second_layer pool
\* capacities sum to the shared pool capacity, and the four second_layer base
\* capacities sum to the shared base capacity.
C9_TopologyConservation ==
    StackOk =>
        /\ \A t \in 0..cfg.years :
              REq(SecondLayerPoolSum(t),
                  x_total(cfg.regions, cfg.base_capacities, cfg.region_tech_growth_rates,
                          cfg.years, cfg.base_year, t))
        /\ REq(SecondLayerBaseSum, x_0_total(cfg.regions, cfg.base_capacities))

\* C10: in each stack topology the baseline added to the pool capacity of year
\* t >= 1 (numerator) is the amount added to the pool base capacity (denominator),
\* for every technology; and with all growth rates zero the pool ratio is 1 and the
\* formula yields C0 at every year t >= 1.
C10_BaselineOffsetsMatch ==
    StackOk =>
        \A tech \in TechSet : \A t \in 1..cfg.years :
            LET xt == x_total(cfg.regions, cfg.base_capacities, cfg.region_tech_growth_rates,
                              cfg.years, cfg.base_year, t)
                xf == x_family(tech, cfg.regions, cfg.base_capacities,
                               cfg.region_tech_growth_rates, cfg.years, cfg.base_year, t)
                xs == tech_capacity(tech, cfg.regions, cfg.base_capacities,
                                    cfg.region_tech_growth_rates, cfg.years, cfg.base_year, t)
                x0t == x_0_total(cfg.regions, cfg.base_capacities)
                x0f == x_0_family(tech, cfg.regions, cfg.base_capacities)
                x0s == x_0_tech(tech, cfg.regions, cfg.base_capacities)
            IN  /\ REq(RSub(xt, raw_x_total(cfg.regions, cfg.base_capacities,
                                cfg.region_tech_growth_rates, cfg.years, cfg.base_year, t)),
                       RSub(x0t, base_x_0_total(cfg.regions, cfg.base_capacities)))
                /\ REq(RSub(xf, raw_x_family(tech, cfg.regions, cfg.base_capacities,
                                cfg.region_tech_growth_rates, cfg.years, cfg.base_year, t)),
                       RSub(x0f, base_x_0_family(tech, cfg.regions, cfg.base_capacities)))
                /\ REq(RSub(xs, raw_tech_capacity(tech, cfg.regions, cfg.base_capacities,
                                cfg.region_tech_growth_rates, cfg.years, cfg.base_year, t)),
                       RSub(x0s, base_tech_capacities(tech, cfg.regions, cfg.base_capacities)))
                /\ GrowthZero =>
                      /\ REq(RDiv(xt, x0t), ROne)
                      /\ REq(RDiv(xf, x0f), ROne)
                      /\ REq(RDiv(xs, x0s), ROne)
                      /\ \A m \in StackModels :
                            REq(stack_data.data[m][tech].cost[t + 1], cfg.stack_costs_0[tech])

\* A stack table of a horizon of two years under zero growth, and one under growth.
C10_Witness ==
    /\ StackOk
    /\ cfg.years >= 2
    /\ GrowthZero
    /\ \E r \in RegionSet(cfg.regions) : \E tech \in TechSet : cfg.base_capacities[r][tech] > 0

(***************************************************************************)
(* Properties of the levelized cost                                        *)
(***************************************************************************)
LcohOk == lcoh.status = "ok"

\* C5: for every accepted parameter set (WACC > 0, any utilization, FOM as value or
\* as percentage) the returned LCOH equals capital_component + fom_component +
\* electricity_component, and electricity_component equals electricity_cost *
\* electrolyzer_efficiency.
C5_ComponentsSumToLcoh ==
    LcohOk =>
        /\ REq(lcoh.data.lcoh,
               RAdd(RAdd(lcoh.data.capital_component, lcoh.data.fom_component),
                    lcoh.data.electricity_component))
        /\ REq(lcoh.data.electricity_component,
               RMul(lcoh.args.electricity_cost, lcoh.args.electrolyzer_efficiency))

\* A returned LCOH of a later year with a percentage FOM, all components positive.
C5_Witness ==
    /\ LcohOk
    /\ lcoh.args.fom_percentage = Some(RInt(2))
    /\ lcoh.args.year_index = None
    /\ RLess(RZero, lcoh.data.capital_component)
    /\ RLess(RZero, lcoh.data.fom_component)
    /\ RLess(RZero, lcoh.data.electricity_component)
    /\ RLess(lcoh.data.capex, RAdd(cfg.stack_costs_0["western_pem"], cfg.bop_costs_0_pem["usa"]))

(***************************************************************************)
(* Properties of the inversion                                             *)
(***************************************************************************)
\* A row was computed.
InvCalled == inv.status # "none"

InvOk == inv.status = "ok"

\* The row's target cost lies strictly between 0 and the base cost.
TargetBelowBase == RLess(RZero, inv.target_cost) /\ RLess(inv.target_cost, inv.c_0)

\* C6: for base cost C0 > 0, base pool capacity x0 > 0, alpha < 0 and a target
\* C0 * r with r in (0, 1), the required capacity the inversion returns satisfies
\* C0 * (x_required / x0) ^ alpha = C0 * r, x0 being the pool capacity the
\* inversion used (stack: all three topologies; BoP & EPC: local and global).
C6_RoundTrip ==
    (/\ InvOk
     /\ RLess(RZero, inv.c_0)
     /\ RLess(RZero, inv.x_0)
     /\ RLess(inv.alpha, RZero)
     /\ TargetBelowBase)
        => REq(RMul(inv.c_0, RPow(RDiv(inv.data.required_capacity, inv.x_0), inv.alpha)),
               inv.target_cost)

\* A returned row of a second_layer stack pool with the dashboard's offsets, below
\* the base cost, the curve steeper than -1.
C6_Witness ==
    /\ InvOk
    /\ inv.kind = "stack"
    /\ inv.learning_model = "second_layer"
    /\ inv.additional.pem = RInt(additional_pem_capacity)
    /\ inv.alpha = RInt(-2)
    /\ inv.target_cost = RMul(inv.c_0, RFrac(1, 9))
    /\ REq(inv.data.required_capacity, RMul(inv.x_0, RInt(3)))

\* The base capacity of the pool the row's topology names, from the installed
\* capacities: all technologies and both offsets, the family and its offset, the
\* technology and its family's offset, the region, or all regions.
PoolBaseCapacity ==
    LET cap(r, t) == cfg.base_capacities[r][t]
        R == RegionSet(cfg.regions)
        total(techs) == RSum([i \in 1..Len(cfg.regions) |->
                                RSum([j \in 1..Len(TECHNOLOGIES) |->
                                        IF TECHNOLOGIES[j] \in techs
                                        THEN RInt(cap(cfg.regions[i], TECHNOLOGIES[j]))
                                        ELSE RZero])])
        family(t) == IF IsPem(t) THEN {"western_pem", "chinese_pem"}
                     ELSE {"western_alk", "chinese_alk"}
        offset(t) == IF IsPem(t) THEN inv.additional.pem ELSE inv.additional.alk
    IN  IF inv.kind = "stack"
        THEN IF inv.learning_model = "shared"
             THEN RAdd(total(TechSet), RAdd(inv.additional.pem, inv.additional.alk))
             ELSE IF inv.learning_model = "first_layer"
             THEN RAdd(total(family(inv.tech)), offset(inv.tech))
             ELSE RAdd(total({inv.tech}), offset(inv.tech))
        ELSE IF inv.learning_model = "local"
        THEN RSum([j \in 1..Len(TECHNOLOGIES) |-> RInt(cap(inv.region, TECHNOLOGIES[j]))])
        ELSE total(TechSet)

\* C7: whenever target_cost >= C0 the inversion returns learning investment 0 and
\* a required capacity equal to the base capacity of the pool of the chosen
\* topology, whatever the value of alpha.
C7_TargetAtOrAboveBase ==
    (InvCalled /\ RLeq(inv.c_0, inv.target_cost))
        => /\ InvOk
           /\ REq(inv.data.learning_investment, RZero)
           /\ REq(inv.data.required_capacity, PoolBaseCapacity)

\* A row above the base cost with exponent -1, for which the investment formula
\* would divide by zero.
C7_Witness ==
    /\ InvOk
    /\ inv.kind = "bop_epc"
    /\ inv.learning_model = "global"
    /\ inv.alpha = RInt(-1)
    /\ RLess(inv.c_0, inv.target_cost)
    /\ RLess(RZero, inv.data.required_capacity)

\* C8: for every target cost strictly between 0 and C0, every alpha < 0 other than
\* -1 and every base pool capacity x0 > 0, the inversion returns a finite required
\* capacity strictly greater than x0 and a learning investment
\* 1 / (1 + alpha) * (C_target * x_required - C0 * x0) that is strictly positive.
C8_PositiveInvestment ==
    (/\ InvCalled
     /\ TargetBelowBase
     /\ RLess(inv.alpha, RZero)
     /\ ~REq(inv.alpha, RInt(-1))
     /\ RLess(RZero, inv.x_0))
        => /\ InvOk
           /\ RLess(inv.x_0, inv.data.required_capacity)
           /\ REq(inv.data.learning_investment,
                  RMul(RDiv(ROne, RAdd(ROne, inv.alpha)),
                       RSub(RMul(inv.target_cost, inv.data.required_capacity),
                            RMul(inv.c_0, inv.x_0))))
           /\ RLess(RZero, inv.data.learning_investment)

(***************************************************************************)
(* Properties of the inputs of calculate_lcoh                              *)
(***************************************************************************)
\* calculate_lcoh was called.
LcohCalled == lcoh.status # "none"

\* The outcome of the call in lcoh with its arguments replaced by a.
LcohWith(a) == calculate_lcoh(stack_data.data, bop_epc_data.data, a)

\* component / (8760 * rate) * efficiency of the call in lcoh.
LcohPerKg(component, rate) ==
    RMul(RDiv(component, RMul(RInt(hours_per_year), rate)),
         lcoh.args.electrolyzer_efficiency)

\* C11: for every utilization_rate <= 0.00001, zero and negative values included,
\* calculate_lcoh raises no division error and returns exactly the LCOH and the
\* components it returns for utilization_rate = 0.00001 with the other inputs
\* unchanged; a utilization_rate > 0.00001 is used as supplied.
C11_UtilizationClamped ==
    LcohCalled =>
        IF RLeq(lcoh.args.utilization_rate, min_utilization_rate)
        THEN /\ lcoh.status = "ok"
             /\ lcoh.data = LcohWith([lcoh.args EXCEPT
                                        !.utilization_rate = min_utilization_rate]).data
        ELSE /\ lcoh.status = "ok"
             /\ REq(lcoh.data.capital_component,
                    LcohPerKg(RMul(calculate_crf(lcoh.args.wacc, lifetime_default),
                                   lcoh.data.capex),
                              lcoh.args.utilization_rate))
             /\ REq(lcoh.data.fom_component,
                    LcohPerKg(actual_fom(lcoh.args.fom_percentage, lcoh.args.fom,
                                         lcoh.data.capex),
                              lcoh.args.utilization_rate))

\* A call with a negative utilization rate that returned a positive LCOH.
C11_Witness ==
    /\ LcohOk
    /\ RLess(lcoh.args.utilization_rate, RZero)
    /\ RLess(RZero, lcoh.data.lcoh)
    /\ RLess(RZero, lcoh.data.capital_component)

\* Absolute fixed-O&M values a call is compared under.
FomAlternatives == {RInt(0), RInt(75)}

\* C12: whenever fom_percentage is supplied (0 included) the fixed O&M used is
\* fom_percentage / 100 * (stack_cost + bop_cost) of the selected year and the
\* absolute fom has no effect on the result; when fom_percentage is None the
\* absolute fom is used unchanged.
C12_FomPercentageOverridesFom ==
    LcohOk =>
        IF lcoh.args.fom_percentage # None
        THEN /\ REq(lcoh.data.fom_component,
                    LcohPerKg(RMul(RDiv(lcoh.args.fom_percentage[1], RInt(100)),
                                   RAdd(lcoh.data.stack_cost, lcoh.data.bop_cost)),
                              safe_utilization_rate(lcoh.args.utilization_rate)))
             /\ \A f \in FomAlternatives :
                    LcohWith([lcoh.args EXCEPT !.fom = f]).data = lcoh.data
        ELSE REq(lcoh.data.fom_component,
                 LcohPerKg(lcoh.args.fom, safe_utilization_rate(lcoh.args.utilization_rate)))

\* A call with a percentage of 0 and a positive absolute fom: no fixed O&M.
C12_Witness ==
    /\ LcohOk
    /\ lcoh.args.fom_percentage = Some(RInt(0))
    /\ RLess(RZero, lcoh.args.fom)
    /\ lcoh.data.fom_component.sg = 0
    /\ RLess(RZero, lcoh.data.capex)

\* The technology whose stack cost the call in lcoh looks up.
LcohTech == tech_type_str(lcoh.args.tech_type, lcoh.args.region)

\* The cost column of the stack table and of the BoP/EPC table the call in lcoh reads.
LcohStackCosts == stack_data.data[lcoh.args.learning_model][LcohTech].cost

LcohBopCosts ==
    bop_epc_data.data[lcoh.args.bop_epc_model][<<lcoh.args.region, tech_base(LcohTech)>>].cost

\* C15: calculate_lcoh without a year index (year_index = None) returns the LCOH
\* and components of year_index = T, the index of the final projected year, for
\* the stack cost and for the BoP/EPC cost.
C15_DefaultYearIsFinalYear ==
    (LcohOk /\ lcoh.args.year_index = None) =>
        /\ lcoh.data = LcohWith([lcoh.args EXCEPT !.year_index = Some(cfg.years)]).data
        /\ lcoh.data.stack_cost = LcohStackCosts[cfg.years + 1]
        /\ lcoh.data.bop_cost = LcohBopCosts[cfg.years + 1]

\* A call without a year index on tables whose final-year costs differ from the
\* base-year costs.
C15_Witness ==
    /\ LcohOk
    /\ lcoh.args.year_index = None
    /\ cfg.years > 0
    /\ RLess(lcoh.data.stack_cost, LcohStackCosts[1])
    /\ RLess(lcoh.data.bop_cost, LcohBopCosts[1])

(***************************************************************************)
(* The singular exponent of the inversion                                  *)
(***************************************************************************)
\* C13: with alpha exactly -1 and a target cost below C0 the learning-investment
\* computation (stack and BoP & EPC, every topology) ends in a division by zero
\* and returns no investment; no guard or limiting form is applied.
C13_SingularExponentRaises ==
    (InvCalled /\ REq(inv.alpha, RInt(-1)) /\ TargetBelowBase) =>
        /\ inv.status = "ZeroDivisionError"
        /\ inv.data = <<>>

\* A stack row of the shared pool with alpha = -1, a positive pool capacity and a
\* target of a quarter of C0, which raised.
C13_Witness ==
    /\ InvCalled
    /\ inv.kind = "stack"
    /\ inv.learning_model = "shared"
    /\ REq(inv.alpha, RInt(-1))
    /\ RLess(RZero, inv.x_0)
    /\ REq(inv.target_cost, RMul(RFrac(1, 4), inv.c_0))
    /\ inv.status = "ZeroDivisionError"

(***************************************************************************)
(* Calls with an entry left out                                            *)
(***************************************************************************)
PartialCalled == partial_call.status # "none"

\* With the full technologies list and every key present the call returns what
\* generate_regional_bop_epc_data returns.
CompleteCallAgrees ==
    (PartialCalled /\ partial_call.omission = "none" /\ bop_epc_data # NoCall) =>
        /\ partial_call.status = bop_epc_data.status
        /\ partial_call.data = bop_epc_data.data

\* The entry left out is one the call needs: a technology of the list, or a key
\* the call looks up (alphas_alk is never read; with years = 0 neither are the
\* growth rates and alphas_pem).
Required(omission, years) ==
    /\ omission \notin {"none", "alphas_alk:region"}
    /\ years = 0 => omission \notin {"region_tech_growth_rates:region",
                                     "region_tech_growth_rates:technology",
                                     "alphas_pem:region"}

\* C14: every call made without a technology of the list or without a key of one
\* of its dicts that it needs fails with the missing-key error (KeyError) and
\* returns nothing.
C14_MissingEntryRaises ==
    (PartialCalled /\ Required(partial_call.omission, cfg.years)) =>
        /\ partial_call.status = "KeyError"
        /\ partial_call.data = <<>>

\* A call without chinese_pem in its technologies list returns tables: the PEM
\* capacity column is western_pem alone and the cost loop counts no PEM capacity.
C14_SilentDefault ==
    /\ PartialCalled
    /\ partial_call.omission = "technologies:chinese_pem"
    /\ cfg.years >= 1
    /\ partial_call.status = "ok"

(***************************************************************************)
(* Properties of the capacity growth                                       *)
(***************************************************************************)
GrowthCalled == growth.status # "none"

\* The base capacity and the growth rate of a region for the technology of the call.
GrowthBase(r) == RInt(cfg.base_capacities[r][growth.technology])

GrowthRate(r) == cfg.region_tech_growth_rates[r][growth.technology]

\* C19: calculate_regional_capacity_growth returns the years base_year ..
\* base_year + T (T + 1 of them); each region's capacity at year t is
\* x0 * (1 + g)^t with that region's own rate; the total at year t is the sum over
\* the regions; g = 0 gives a flat series; a negative g is accepted.
C19_CompoundGrowth ==
    GrowthCalled =>
        /\ growth.status = "ok"
        /\ Len(growth.data.year) = cfg.years + 1
        /\ \A t \in 0..cfg.years : growth.data.year[t + 1] = cfg.base_year + t
        /\ DOMAIN growth.data.capacity_by_region = RegionSet(cfg.regions)
        /\ Len(growth.data.capacity) = cfg.years + 1
        /\ \A r \in RegionSet(cfg.regions) :
               /\ Len(growth.data.capacity_by_region[r]) = cfg.years + 1
               /\ \A t \in 0..cfg.years :
                      /\ REq(growth.data.capacity_by_region[r][t + 1],
                             RMul(GrowthBase(r), RPowNat(RAdd(ROne, GrowthRate(r)), t)))
                      /\ GrowthRate(r).sg = 0 =>
                             REq(growth.data.capacity_by_region[r][t + 1], GrowthBase(r))
        /\ \A t \in 0..cfg.years :
               REq(growth.data.capacity[t + 1],
                   RSum([i \in 1..Len(cfg.regions) |->
                           growth.data.capacity_by_region[cfg.regions[i]][t + 1]]))

\* A call over two years for regions with capacity installed, one shrinking by a
\* half each year (100 MW to 25 MW) and one growing.
C19_Witness ==
    /\ GrowthCalled
    /\ cfg.years = 2
    /\ \E r, q \in RegionSet(cfg.regions) :
           /\ GrowthRate(r).sg = -1
           /\ REq(GrowthBase(r), RInt(100))
           /\ REq(growth.data.capacity_by_region[r][3], RInt(25))
           /\ GrowthRate(q).sg = 1
           /\ GrowthBase(q).sg = 1
           /\ REq(growth.data.capacity[3],
                  RAdd(RInt(25), growth.data.capacity_by_region[q][3]))

(***************************************************************************)
(* Properties of the exponent                                              *)
(***************************************************************************)
AlphaCalled == alpha.status # "none"

\* The argument of the logarithm, 1 - LR / 100.
AlphaArgument == RSub(ROne, RDiv(alpha.learning_rate, RInt(100)))

\* 2 ^ (k / LogScale) <= x, for an integer k and a rational x > 0:
\* 2 ^ k * x.d ^ LogScale <= x.n ^ LogScale.
Pow2AtMost(k, x) ==
    IF k >= 0
    THEN BLeq(BMul(BPowNat(BNat(2), k), BPowNat(x.d, LogScale)), BPowNat(x.n, LogScale))
    ELSE BLeq(BPowNat(x.d, LogScale), BMul(BPowNat(BNat(2), -k), BPowNat(x.n, LogScale)))

\* x <= 2 ^ (k / LogScale).
Pow2AtLeast(k, x) ==
    IF k >= 0
    THEN BLeq(BPowNat(x.n, LogScale), BMul(BPowNat(BNat(2), k), BPowNat(x.d, LogScale)))
    ELSE BLeq(BMul(BPowNat(BNat(2), -k), BPowNat(x.n, LogScale)), BPowNat(x.d, LogScale))

\* The numerator k of a multiple k / LogScale.
Scaled(a) == a.sg * BVal(RMul(a, RInt(LogScale)).n)

\* The returned value is log2(x): 2 ^ lo <= x <= 2 ^ hi with hi - lo at most
\* 1 / LogScale, and lo = hi only where 2 ^ lo = x.
IsLog2Of(e, x) ==
    /\ RLeq(e.lo, e.hi)
    /\ RLeq(RSub(e.hi, e.lo), RFrac(1, LogScale))
    /\ Pow2AtMost(Scaled(e.lo), x)
    /\ Pow2AtLeast(Scaled(e.hi), x)

\* The value is below 0: its enclosure ends at or below 0, and not at 0 exactly.
StrictlyNegative(e) == RLeq(e.hi, RZero) /\ (e.hi.sg < 0 \/ ~REq(e.lo, e.hi))

\* C20: alpha_from_learning_rate returns log2(1 - LR/100); the exponent is
\* strictly negative for 0 < LR < 100, about -0.3219 for LR = 20 and exactly -1
\* for LR = 50; for LR >= 100 the conversion fails and returns no exponent.
C20_AlphaIsLog2 ==
    AlphaCalled =>
        /\ RLeq(RInt(100), alpha.learning_rate) =>
               alpha.status = "ValueError" /\ alpha.data = <<>>
        /\ RLess(alpha.learning_rate, RInt(100)) =>
               /\ alpha.status = "ok"
               /\ IsLog2Of(alpha.data, AlphaArgument)
        /\ (RLess(RZero, alpha.learning_rate) /\ RLess(alpha.learning_rate, RInt(100))) =>
               StrictlyNegative(alpha.data)
        /\ REq(alpha.learning_rate, RInt(20)) =>
               /\ RLeq(alpha.data.lo, RFrac(-3219, 10000))
               /\ RLeq(RFrac(-3219, 10000), alpha.data.hi)
        /\ REq(alpha.learning_rate, RInt(50)) =>
               /\ REq(alpha.data.lo, RInt(-1))
               /\ REq(alpha.data.hi, RInt(-1))

\* The conversion of LR = 20 percent: an exponent between -0.33 and -0.31.
C20_Witness ==
    /\ AlphaCalled
    /\ REq(alpha.learning_rate, RInt(20))
    /\ alpha.status = "ok"
    /\ RLeq(RFrac(-33, 100), alpha.data.lo)
    /\ RLeq(alpha.data.hi, RFrac(-31, 100))

(***************************************************************************)
(* Properties of the sensitivity                                           *)
(***************************************************************************)
SensitivityCalled == sensitivity.status # "none"

\* The year index of the target year, within the horizon of the tables.
TargetIndex == sensitivity.args.target_year - sensitivity.args.base_year

TargetWithinHorizon == TargetIndex \in 0..cfg.years

\* C16: for each of wacc, utilization, electricity and efficiency the call returns
\* exactly 20 parameter values evenly spaced from the lower to the upper end of the
\* range, both ends included, 20 lcoh_values, and 20 current_lcoh_values with
\* compare_with_current, None without.
C16_TwentySamples ==
    (SensitivityCalled /\ TargetWithinHorizon) =>
        /\ sensitivity.status = "ok"
        /\ DOMAIN sensitivity.data = {"wacc", "utilization", "electricity", "efficiency"}
        /\ \A parameter \in DOMAIN sensitivity.data :
               /\ Len(sensitivity.data[parameter].parameter_values) = 20
               /\ REq(sensitivity.data[parameter].parameter_values[1],
                      range_of(sensitivity.args, parameter)[1])
               /\ REq(sensitivity.data[parameter].parameter_values[20],
                      range_of(sensitivity.args, parameter)[2])
               /\ \A i \in 1..19 :
                      REq(RSub(sensitivity.data[parameter].parameter_values[i + 1],
                               sensitivity.data[parameter].parameter_values[i]),
                          RDiv(RSub(range_of(sensitivity.args, parameter)[2],
                                    range_of(sensitivity.args, parameter)[1]),
                               RInt(19)))
               /\ Len(sensitivity.data[parameter].lcoh_values) = 20
               /\ sensitivity.args.compare_with_current =>
                      /\ sensitivity.data[parameter].current_lcoh_values # None
                      /\ Len(sensitivity.data[parameter].current_lcoh_values[1]) = 20
               /\ ~sensitivity.args.compare_with_current =>
                      sensitivity.data[parameter].current_lcoh_values = None

\* A call with compare_with_current for a target year after the base year.
C16_Witness ==
    /\ SensitivityCalled
    /\ sensitivity.status = "ok"
    /\ sensitivity.args.compare_with_current
    /\ TargetIndex = cfg.years
    /\ cfg.years >= 1
    /\ REq(sensitivity.data["efficiency"].parameter_values[20], RInt(70))

\* calculate_lcoh for the region of the call with one of the four swept
\* parameters at v and the others at their base values, at the year index.
SweepLcoh(parameter, v, year_index) ==
    calculate_lcoh(stack_data.data, bop_epc_data.data,
        [tech_type |-> [str |-> IF sensitivity.args.region = "china" THEN "chinese_alk"
                                ELSE "western_pem"],
         region |-> sensitivity.args.region,
         wacc |-> IF parameter = "wacc" THEN v ELSE sensitivity.args.base_wacc,
         fom |-> RInt(0),
         utilization_rate |-> IF parameter = "utilization" THEN v
                              ELSE sensitivity.args.base_utilization_rate,
         electricity_cost |-> IF parameter = "electricity" THEN v
                              ELSE sensitivity.args.base_electricity_cost,
         electrolyzer_efficiency |-> IF parameter = "efficiency" THEN v
                                     ELSE sensitivity.args.base_electrolyzer_efficiency,
         learning_model |-> sensitivity.args.stack_model,
         bop_epc_model |-> sensitivity.args.bop_epc_model,
         year_index |-> Some(year_index),
         fom_percentage |-> sensitivity.args.fom_percentage]).data.lcoh

\* C17: lcoh_values[i] is calculate_lcoh at year index target_year - base_year with
\* the swept parameter at parameter_values[i] and the other three at their base
\* values; current_lcoh_values[i] is the same at year index 0; with
\* target_year = base_year the two series are identical.
C17_SeriesAreLcohAtSamples ==
    (SensitivityCalled /\ TargetWithinHorizon) =>
        /\ sensitivity.status = "ok"
        /\ \A parameter \in DOMAIN sensitivity.data : \A i \in 1..20 :
               /\ REq(sensitivity.data[parameter].lcoh_values[i],
                      SweepLcoh(parameter,
                                sensitivity.data[parameter].parameter_values[i],
                                TargetIndex))
               /\ sensitivity.args.compare_with_current =>
                      REq(sensitivity.data[parameter].current_lcoh_values[1][i],
                          SweepLcoh(parameter,
                                    sensitivity.data[parameter].parameter_values[i], 0))
        /\ (sensitivity.args.compare_with_current /\ TargetIndex = 0) =>
               \A parameter \in DOMAIN sensitivity.data :
                   sensitivity.data[parameter].current_lcoh_values[1]
                       = sensitivity.data[parameter].lcoh_values

\* A call whose target-year series lies below its base-year series, and a call
\* for the base year itself.
C17_Witness ==
    /\ SensitivityCalled
    /\ sensitivity.status = "ok"
    /\ sensitivity.args.compare_with_current
    /\ TargetIndex = cfg.years
    /\ cfg.years >= 1
    /\ RLess(sensitivity.data["wacc"].lcoh_values[7],
             sensitivity.data["wacc"].current_lcoh_values[1][7])

\* A call for the base year: the two series coincide.
BaseYearSeriesCoincide ==
    /\ SensitivityCalled
    /\ sensitivity.status = "ok"
    /\ sensitivity.args.compare_with_current
    /\ TargetIndex = 0
    /\ sensitivity.data["utilization"].current_lcoh_values[1]
           = sensitivity.data["utilization"].lcoh_values

CrfCalled == crf.status # "none"

\* wacc * (1 + wacc)^L / ((1 + wacc)^L - 1)
CrfClosedForm(wacc, L) ==
    RDiv(RMul(wacc, RPowNat(RAdd(ROne, wacc), L)),
         RSub(RPowNat(RAdd(ROne, wacc), L), ROne))

RECURSIVE AnnuityValue(_, _)
\* The present value of 1 a year over L years, the sum of (1 + wacc)^-k for
\* k = 1..L: a year earlier, the payment and the value of the rest are discounted
\* by a year.
AnnuityValue(wacc, L) ==
    IF L = 0 THEN RZero
    ELSE RDiv(RAdd(ROne, AnnuityValue(wacc, L - 1)), RAdd(ROne, wacc))

\* C21: calculate_crf(wacc, L) is wacc * (1 + wacc)^L / ((1 + wacc)^L - 1) for
\* wacc > 0 and L >= 1 (the payment whose present value over L years is 1), and
\* calculate_lcoh annualizes the capex with the factor at L = 20:
\* capital_component = CRF(wacc, 20) * (stack_cost + bop_cost) / (8760 * utilization)
\* * efficiency.
C21_CapitalRecoveryFactor ==
    /\ (CrfCalled /\ crf.wacc.sg = 1) =>
           /\ crf.status = "ok"
           /\ REq(crf.data, CrfClosedForm(crf.wacc, crf.lifetime))
           /\ REq(RMul(crf.data, AnnuityValue(crf.wacc, crf.lifetime)), ROne)
    /\ (LcohCalled /\ lcoh.args.wacc.sg = 1) =>
           /\ lcoh.status = "ok"
           /\ REq(lcoh.data.capital_component,
                  RMul(RDiv(RMul(CrfClosedForm(lcoh.args.wacc, 20),
                                 RAdd(lcoh.data.stack_cost, lcoh.data.bop_cost)),
                            RMul(RInt(8760), lcoh.args.utilization_rate)),
                       lcoh.args.electrolyzer_efficiency))

\* The factor at 8% over 20 years, and a levelized cost at 8% with a capital
\* component.
C21_Witness ==
    /\ CrfCalled
    /\ REq(crf.wacc, RFrac(8, 100))
    /\ crf.lifetime = 20
    /\ crf.status = "ok"
    /\ LcohCalled
    /\ lcoh.status = "ok"
    /\ REq(lcoh.args.wacc, RFrac(8, 100))
    /\ REq(lcoh.data.capital_component,
           RMul(RDiv(RMul(crf.data, lcoh.data.capex), RInt(4380)), RInt(55)))

(***************************************************************************)
(* Properties of the BoP & EPC projection on empty pools                   *)
(***************************************************************************)
\* C22: generate_regional_bop_epc_data never fails with a division by zero and
\* returns a finite cost for every region, category, topology and year, whatever
\* the non-negative base capacities, a region or every region with none included.
C22_BopNeverDividesByZero ==
    bop_epc_data # NoCall =>
        /\ bop_epc_data.status = "ok"
        /\ \A m \in DOMAIN bop_epc_data.data : \A k \in DOMAIN bop_epc_data.data[m] :
               \A t \in DOMAIN bop_epc_data.data[m][k].cost :
                   ~IsErr(bop_epc_data.data[m][k].cost[t])
                   /\ ~IsOvf(bop_epc_data.data[m][k].cost[t])

\* A call for a region with nothing installed, a learning exponent below 0 and a
\* year after the base year raises ZeroDivisionError.
EmptyRegionRaises ==
    /\ bop_epc_data.status = "ZeroDivisionError"
    /\ cfg.years >= 1
    /\ \E r \in RegionSet(cfg.regions) :
           /\ \A tech \in TechSet : cfg.base_capacities[r][tech] = 0
           /\ cfg.bop_alphas_pem[r].sg = -1

(***************************************************************************)
(* Properties of the LCOH projections                                      *)
(***************************************************************************)
ProjectionsCalled == projections # NoCall /\ projections.status = "ok"

ProjectedRegions == RegionSet(projections.args.regions)

ProjectedRows == 1..(projections.args.years + 1)

\* The fixed-O&M component of an absolute FOM value: fom / (8760 * utilization) * efficiency.
AbsoluteFomComponent(p, region) ==
    RMul(RDiv(p.fom_values[region],
              RMul(RInt(hours_per_year), safe_utilization_rate(p.utilization_rates[region]))),
         p.electrolyzer_efficiencies[region])

\* calculate_lcoh for the region of the sensitivity call under a stack topology
\* and an absolute FOM, the swept parameter at v and the others at their base values.
SweepLcohUnder(learning_model, fom, parameter, v) ==
    calculate_lcoh(stack_data.data, bop_epc_data.data,
        [tech_type |-> [str |-> IF sensitivity.args.region = "china" THEN "chinese_alk"
                                ELSE "western_pem"],
         region |-> sensitivity.args.region,
         wacc |-> IF parameter = "wacc" THEN v ELSE sensitivity.args.base_wacc,
         fom |-> fom,
         utilization_rate |-> IF parameter = "utilization" THEN v
                              ELSE sensitivity.args.base_utilization_rate,
         electricity_cost |-> IF parameter = "electricity" THEN v
                              ELSE sensitivity.args.base_electricity_cost,
         electrolyzer_efficiency |-> IF parameter = "efficiency" THEN v
                                     ELSE sensitivity.args.base_electrolyzer_efficiency,
         learning_model |-> learning_model,
         bop_epc_model |-> sensitivity.args.bop_epc_model,
         year_index |-> Some(TargetIndex),
         fom_percentage |-> sensitivity.args.fom_percentage]).data.lcoh

SensitivityByModelCalled ==
    /\ sensitivity # NoCall
    /\ sensitivity.status = "ok"
    /\ "learning_model" \in DOMAIN sensitivity.args

\* C23: when no FOM percentage is supplied, the projection call and the
\* sensitivity call compute the fixed-O&M component from the caller's absolute
\* FOM value (fom_values[region], base_fom).
C23_AbsoluteFomIsUsed ==
    /\ (ProjectionsCalled /\ projections.args.fom_percentages = None) =>
           \A region \in ProjectedRegions : \A i \in ProjectedRows :
               REq(projections.data[region]["FOM Component ($/kg)"][i],
                   AbsoluteFomComponent(projections.args, region))
    /\ (SensitivityByModelCalled /\ sensitivity.args.fom_percentage = None) =>
           \A parameter \in DOMAIN sensitivity.data : \A i \in {1, 20} :
               REq(sensitivity.data[parameter].lcoh_values[i],
                   SweepLcohUnder(sensitivity.args.stack_model, sensitivity.args.base_fom,
                                  parameter, sensitivity.data[parameter].parameter_values[i]))

\* A sensitivity call without FOM percentage and with base_fom = 50 $/kW/year
\* returns the LCOH of an absolute FOM of 0.
BaseFomIgnored ==
    /\ SensitivityByModelCalled
    /\ sensitivity.args.fom_percentage = None
    /\ REq(sensitivity.args.base_fom, RInt(50))
    /\ \A parameter \in DOMAIN sensitivity.data : \A i \in {1, 20} :
           REq(sensitivity.data[parameter].lcoh_values[i],
               SweepLcohUnder(sensitivity.args.stack_model, RInt(0),
                              parameter, sensitivity.data[parameter].parameter_values[i]))

\* A projection without FOM percentages and with an absolute FOM of 50 $/kW/year
\* returns a fixed-O&M component of 0 in every row.
AbsoluteFomIgnored ==
    /\ ProjectionsCalled
    /\ projections.args.fom_percentages = None
    /\ \A region \in ProjectedRegions :
           /\ REq(projections.args.fom_values[region], RInt(50))
           /\ \A i \in ProjectedRows :
                  REq(projections.data[region]["FOM Component ($/kg)"][i], RZero)

\* The technology the claim names for a region: the caller's selection for it,
\* else chinese_alk for china and western_pem for any other region.
ChosenTech(region) ==
    LET sel == projections.args.selected_tech
    IN  IF sel # None /\ "str" \in DOMAIN sel[1] /\ sel[1].str # "" THEN sel[1].str
        ELSE IF sel # None /\ "dict" \in DOMAIN sel[1] /\ region \in DOMAIN sel[1].dict
        THEN sel[1].dict[region]
        ELSE IF region = "china" THEN "chinese_alk" ELSE "western_pem"

\* What calculate_lcoh returns for a region at year_index = idx.
LcohAtYearIndex(p, region, idx) ==
    calculate_lcoh(stack_data.data, bop_epc_data.data,
        [tech_type |-> [str |-> ChosenTech(region)],
         region |-> region,
         wacc |-> p.wacc_values[region],
         fom |-> RInt(0),
         utilization_rate |-> p.utilization_rates[region],
         electricity_cost |-> p.electricity_costs[region],
         electrolyzer_efficiency |-> p.electrolyzer_efficiencies[region],
         learning_model |-> p.learning_model,
         bop_epc_model |-> p.bop_epc_model,
         year_index |-> Some(idx),
         fom_percentage |-> IF p.fom_percentages = None THEN None
                            ELSE Some(p.fom_percentages[1][region])]).data

RowIsEvaluation(frame, i, row) ==
    /\ REq(frame["LCOH ($/kg)"][i], row.lcoh)
    /\ REq(frame["CAPEX Component ($/kg)"][i], row.capital_component)
    /\ REq(frame["FOM Component ($/kg)"][i], row.fom_component)
    /\ REq(frame["Electricity Component ($/kg)"][i], row.electricity_component)
    /\ REq(frame["Total CAPEX ($/kW)"][i], row.capex)

\* C25: generate_lcoh_projections returns, for every region, a table of T+1 rows
\* with Year = base_year + idx whose row idx holds the LCOH and the three
\* components calculate_lcoh returns at year_index = idx, and the capex of that
\* evaluation as Total CAPEX, for the caller's technology of the region or else
\* chinese_alk for china and western_pem otherwise.
C25_ProjectionRowsAreYearlyLcoh ==
    ProjectionsCalled =>
        /\ DOMAIN projections.data = ProjectedRegions
        /\ \A region \in ProjectedRegions :
               /\ \A column \in DOMAIN projections.data[region] :
                      DOMAIN projections.data[region][column] = ProjectedRows
               /\ \A i \in ProjectedRows :
                      /\ projections.data[region]["Year"][i] = projections.args.base_year + i - 1
                      /\ RowIsEvaluation(projections.data[region], i,
                                         LcohAtYearIndex(projections.args, region, i - 1))

\* A projection over both regions and at least two years, with a selection for
\* usa only, whose LCOH differs between the first two rows.
C25_Witness ==
    /\ ProjectionsCalled
    /\ projections.args.years >= 1
    /\ ProjectedRegions = {"usa", "china"}
    /\ projections.args.selected_tech # None
    /\ "dict" \in DOMAIN projections.args.selected_tech[1]
    /\ DOMAIN projections.args.selected_tech[1].dict = {"usa"}
    /\ \A region \in ProjectedRegions :
           ~REq(projections.data[region]["LCOH ($/kg)"][1],
                projections.data[region]["LCOH ($/kg)"][2])

(***************************************************************************)
(* Properties of the sensitivity sweep under a stack topology              *)
(***************************************************************************)
\* C24: generate_lcoh_sensitivity evaluates the stack costs under the topology
\* named by its learning_model argument: every LCOH it returns is calculate_lcoh
\* read from the table of that topology.
C24_SensitivityReadsLearningModel ==
    SensitivityByModelCalled =>
        \A parameter \in DOMAIN sensitivity.data : \A i \in {1, 20} :
            REq(sensitivity.data[parameter].lcoh_values[i],
                SweepLcohUnder(sensitivity.args.learning_model, RInt(0),
                               parameter, sensitivity.data[parameter].parameter_values[i]))

\* Two topologies whose stack costs differ at the target year: a call with
\* learning_model = "shared" and stack_model = "second_layer" returns the LCOH of
\* the second_layer table.
LearningModelIgnored ==
    /\ SensitivityByModelCalled
    /\ sensitivity.args.learning_model = "shared"
    /\ sensitivity.args.stack_model = "second_layer"
    /\ \A parameter \in DOMAIN sensitivity.data : \A i \in {1, 20} :
           /\ REq(sensitivity.data[parameter].lcoh_values[i],
                  SweepLcohUnder("second_layer", RInt(0), parameter,
                                 sensitivity.data[parameter].parameter_values[i]))
           /\ ~REq(sensitivity.data[parameter].lcoh_values[i],
                   SweepLcohUnder("shared", RInt(0), parameter,
                                  sensitivity.data[parameter].parameter_values[i]))

(***************************************************************************)
(* Properties of the BoP & EPC learning exponents                          *)
(***************************************************************************)
\* Other values of alphas_alk for the regions of the call.
OtherAlphasAlk ==
    {[r \in RegionSet(cfg.regions) |-> a] : a \in {RInt(-1), RInt(-3), RInt(1)}}

\* C28: the output of generate_regional_bop_epc_data does not depend on alphas_alk,
\* and within a region the PEM and the ALK cost decline by the same factor in every
\* year under the local and the global topology.
C28_AlphasAlkUnused ==
    bop_epc_data # NoCall =>
        /\ \A other \in OtherAlphasAlk :
               bop_epc_data = generate_regional_bop_epc_data(cfg.regions,
                                  cfg.bop_costs_0_pem, cfg.bop_costs_0_alk,
                                  cfg.base_capacities, cfg.region_tech_growth_rates,
                                  cfg.bop_alphas_pem, other, cfg.years, cfg.base_year)
        /\ BopOk =>
               \A m \in BopModels : \A r \in RegionSet(cfg.regions) : \A t \in 1..(cfg.years + 1) :
                   REq(RMul(bop_epc_data.data[m][<<r, "pem">>].cost[t], cfg.bop_costs_0_alk[r]),
                       RMul(bop_epc_data.data[m][<<r, "alk">>].cost[t], cfg.bop_costs_0_pem[r]))

\* A call with alphas_alk different from alphas_pem in a region whose costs have
\* declined below the base cost after the base year, under both topologies.
C28_Witness ==
    /\ BopOk
    /\ cfg.years >= 1
    /\ \E r \in RegionSet(cfg.regions) :
           /\ ~REq(cfg.bop_alphas_alk[r], cfg.bop_alphas_pem[r])
           /\ \A m \in BopModels :
                  /\ RLess(bop_epc_data.data[m][<<r, "pem">>].cost[cfg.years + 1],
                           cfg.bop_costs_0_pem[r])
                  /\ RLess(bop_epc_data.data[m][<<r, "alk">>].cost[cfg.years + 1],
                           cfg.bop_costs_0_alk[r])

(***************************************************************************)
(* Properties of the capacity column of the stack tables                   *)
(***************************************************************************)
\* The baseline offset of a technology's family, in MW.
FamilyOffset(tech) == IF IsPem(tech) THEN 1100 ELSE 22580

\* The raw capacity of a technology summed over the configured regions at year index t.
RawCapacity(tech, t) ==
    RSum([i \in 1..Len(cfg.regions) |->
            GrowthSeries(RInt(cfg.base_capacities[cfg.regions[i]][tech]),
                         cfg.region_tech_growth_rates[cfg.regions[i]][tech], t)])

\* C30: for any list of regions, the 'capacity' column of every stack technology,
\* identical in the three topologies, is at every year the raw capacity summed over
\* the regions plus exactly one copy of the family's baseline offset, that is the
\* pool capacity of the second_layer cost formula.
C30_CapacityColumnIsPool ==
    StackOk =>
        \A m \in StackModels : \A tech \in TechSet : \A t \in 0..cfg.years :
            /\ stack_data.data[m][tech].capacity = stack_data.data["shared"][tech].capacity
            /\ REq(stack_data.data[m][tech].capacity[t + 1],
                   RAdd(RawCapacity(tech, t), RInt(FamilyOffset(tech))))
            /\ REq(stack_data.data[m][tech].capacity[t + 1],
                   tech_capacity(tech, cfg.regions, cfg.base_capacities,
                                 cfg.region_tech_growth_rates, cfg.years, cfg.base_year, t))

\* A call for a region list without 'usa': the capacity column carries no offset,
\* while the second_layer pool carries the family's.
CapacityColumnWithoutOffset ==
    /\ StackOk
    /\ \A i \in 1..Len(cfg.regions) : cfg.regions[i] # "usa"
    /\ \A tech \in TechSet : \A t \in 0..cfg.years :
           /\ REq(stack_data.data["second_layer"][tech].capacity[t + 1], RawCapacity(tech, t))
           /\ REq(RSub(tech_capacity(tech, cfg.regions, cfg.base_capacities,
                                     cfg.region_tech_growth_rates, cfg.years, cfg.base_year, t),
                       stack_data.data["second_layer"][tech].capacity[t + 1]),
                  RInt(FamilyOffset(tech)))

(***************************************************************************)
(* Properties of the inversion applied to projected costs                  *)
(***************************************************************************)
RoundTripCalled ==
    /\ inv # NoCall
    /\ "pool" \in DOMAIN inv
    /\ RLess(inv.target_cost, inv.c_0)

\* C26: for every topology of the stack (with the 1100 and 22580 MW offsets passed
\* to the inversion) and of BoP & EPC and every year t >= 1 whose projected cost
\* c_t lies below C0, the required capacity of the inversion for the target c_t is
\* the pool capacity the forward projection used, whatever the base capacities.
C26_InversionReturnsForwardPool ==
    RoundTripCalled =>
        /\ inv.status = "ok"
        /\ REq(inv.data.required_capacity, inv.pool)

\* The stack part of the property alone.
StackInversionReturnsForwardPool ==
    (RoundTripCalled /\ inv.kind = "stack") =>
        /\ inv.status = "ok"
        /\ REq(inv.data.required_capacity, inv.pool)

\* The BoP & EPC part for pools whose base capacity is at least 100 MW.
BopEpcInversionReturnsForwardPoolFrom100 ==
    (RoundTripCalled /\ inv.kind = "bop_epc"
     /\ RLeq(RInt(100), bop_epc_x_0(inv.region, cfg.base_capacities,
                                    inv.learning_model, cfg.regions))) =>
        /\ inv.status = "ok"
        /\ REq(inv.data.required_capacity, inv.pool)

\* A region with a base capacity of 50 MW whose local cost has fallen below C0:
\* the inversion returns half the pool capacity of the projection.
BopEpcInversionBelowFloor ==
    /\ RoundTripCalled
    /\ inv.kind = "bop_epc"
    /\ inv.learning_model = "local"
    /\ inv.status = "ok"
    /\ REq(sum_region_capacities(cfg.base_capacities, inv.region), RInt(50))
    /\ REq(RMul(RInt(2), inv.data.required_capacity), inv.pool)

(***************************************************************************)
(* Properties of the target-cost tables                                    *)
(***************************************************************************)
\* A table built with a learning exponent below 0 other than -1 on a pool with a
\* positive base capacity.
TableCalled ==
    /\ target_table # NoCall
    /\ target_table.alpha.sg = -1
    /\ ~REq(target_table.alpha, RInt(-1))
    /\ RLess(RZero, target_table.x_0)
    /\ RLess(RZero, target_table.min_cost_factor)
    /\ RLess(target_table.min_cost_factor, ROne)

\* C29: in the tables of generate_target_cost_data_stack and _bop_epc the first row
\* has target_cost = C0, cost_reduction_pct = 0, learning_investment = 0 and
\* required_capacity = the base pool capacity, and down the rows required_capacity
\* and learning_investment strictly increase.
C29_TargetTableMonotone ==
    TableCalled =>
        /\ target_table.status = "ok"
        /\ REq(target_table.data.target_cost[1], target_table.c_0)
        /\ REq(target_table.data.cost_reduction_pct[1], RZero)
        /\ REq(target_table.data.learning_investment[1], RZero)
        /\ REq(target_table.data.required_capacity[1], target_table.x_0)
        /\ \A i \in 1..(target_table.cost_steps - 1) :
               /\ RLess(target_table.data.required_capacity[i],
                        target_table.data.required_capacity[i + 1])
               /\ RLess(target_table.data.learning_investment[i],
                        target_table.data.learning_investment[i + 1])

\* A stack table of the largest number of rows down to a tenth of the base cost
\* whose last row needs a positive investment.
C29_Witness ==
    /\ TableCalled
    /\ target_table.status = "ok"
    /\ target_table.kind = "stack"
    /\ target_table.cost_steps = MaxCostSteps
    /\ REq(target_table.data.target_cost[MaxCostSteps],
           RMul(target_table.c_0, RFrac(1, 10)))
    /\ RLess(RZero, target_table.data.learning_investment[MaxCostSteps])

\* A BoP & EPC table of three rows with a learning exponent below -1.
BopEpcTableBelowMinusOne ==
    /\ TableCalled
    /\ target_table.status = "ok"
    /\ target_table.kind = "bop_epc"
    /\ REq(target_table.alpha, RInt(-2))
    /\ target_table.cost_steps = 3

(***************************************************************************)
(* Properties of the stack learning investment                             *)
(***************************************************************************)
InvestmentsCalled == investments # NoCall /\ investments.status = "ok"

AllGrowthRatesZero ==
    \A r \in RegionSet(cfg.regions) : \A tech \in TechSet :
        REq(cfg.region_tech_growth_rates[r][tech], RZero)

\* C27: with every growth rate zero, generate_stack_learning_investments returns
\* an investment of 0 for every technology, topology and year, given base
\* capacities equal to each technology's summed regional base capacity.
C27_NoGrowthNoInvestment ==
    (InvestmentsCalled /\ AllGrowthRatesZero) =>
        \A m \in StackModels : \A tech \in TechSet :
            \A t \in DOMAIN investments.data[m][tech].learning_investment :
                REq(investments.data[m][tech].learning_investment[t], RZero)

\* A call for a region list naming 'usa' with no growth at all: in the year after
\* the base year the second_layer investment of every technology is its base cost
\* times the baseline offset of its family, divided by 1 + alpha.
OffsetCountedAsInvestment ==
    /\ InvestmentsCalled
    /\ AllGrowthRatesZero
    /\ cfg.years >= 1
    /\ \E i \in 1..Len(cfg.regions) : cfg.regions[i] = "usa"
    /\ \A tech \in TechSet :
           REq(investments.data["second_layer"][tech].learning_investment[2],
               RDiv(RMul(cfg.stack_costs_0[tech], RInt(FamilyOffset(tech))),
                    RAdd(ROne, cfg.stack_alphas[tech])))

====
